---- MODULE Spec2Model ----
(***************************************************************************)
(* Model of the event submission pipeline of versioner-cli.                *)
(*                                                                         *)
(* The components are modelled each with its own specification:            *)
(*                                                                         *)
(*   Spec       the resilient submission client (package api):             *)
(*              Client.doRequest (the retry loop), Client.performRequest   *)
(*              (one HTTP round trip), handleResponse (decoding / error    *)
(*              classification) and the soft-fail step handleAPIError.     *)
(*              One behaviour is one call of CreateBuildEvent or           *)
(*              CreateDeploymentEvent; the server and the network are the  *)
(*              environment.                                               *)
(*   NormSpec   the status normalizer (package status).                    *)
(*   DetectSpec the CI/CD environment detector (package cicd).             *)
(*   CmdSpec    the `track build` / `track deployment` commands (package   *)
(*              cmd) around one call of the client.                        *)
(*   MetaSpec   the metadata reconciler (ParseExtraMetadata and            *)
(*              MergeMetadata of package cmd).                             *)
(*   AnnotateSpec the GitHub Actions error annotation of a rejected        *)
(*              deployment (package github).                               *)
(*                                                                         *)
(* Strings the program takes apart (status values, repository names,       *)
(* commit SHAs, URLs) are sequences of characters.                         *)
(***************************************************************************)
EXTENDS Integers, Sequences, FiniteSets, TLC

VARIABLES
    kind,            \* "build" | "deployment": which Create*Event is running
    FailOnAPIError,  \* Client.FailOnAPIError, fixed at construction
    requestOK,       \* can performRequest build the request (Marshal / NewRequest)?
    pc,              \* position of the call
    attempt,         \* loop variable of doRequest
    lastErr,         \* doRequest's lastErr
    sleeps,          \* durations (seconds) passed to time.Sleep, in order
    sent,            \* number of HTTPClient.Do calls started
    inflight,        \* number of HTTPClient.Do calls not yet returned
    attempts,        \* result of every performRequest call, in order
    resp,            \* *http.Response returned by doRequest (or NoResp)
    doErr,           \* error returned by doRequest (or NoErr)
    retErr,          \* error returned by Create*Event (or NoErr)
    retResult,       \* result returned by Create*Event (or NoResult)
    \* status normalizer
    status,          \* the argument of Normalize
    normalized,      \* what Normalize(status) and IsValid(status) returned
    renormalized,    \* what Normalize returned for its own canonical output
    \* environment detector
    env,             \* the process environment (os.Getenv)
    detected,        \* the *DetectedValues returned by Detect
    autoMetadata,    \* the map returned by detected.ExtraMetadata()
    \* track commands
    flags,           \* flag / config / auto-detected inputs of the command
    event,           \* the event handed to Create*Event
    cmdErr,          \* the error the command's RunE returned
    exitCode,        \* the exit code of the process
    \* metadata reconciler
    extraMetadataStr, \* the argument of ParseExtraMetadata
    userMetadata,    \* what ParseExtraMetadata(extraMetadataStr) returned
    autoArg,         \* the first argument of MergeMetadata
    merged,          \* what MergeMetadata(autoArg, user map) returned
    \* GitHub Actions annotation
    rejection,       \* the arguments of writeWorkflowCommand
    stdout           \* the line writeWorkflowCommand printed

clientVars == <<kind, FailOnAPIError, requestOK, pc, attempt, lastErr, sleeps,
                sent, inflight, attempts, resp, doErr, retErr, retResult>>
normVars == <<status, normalized, renormalized>>
detectVars == <<env, detected, autoMetadata>>
cmdVars == <<flags, event, cmdErr, exitCode>>
metaVars == <<extraMetadataStr, userMetadata, autoArg, merged>>
annotateVars == <<rejection, stdout>>

vars == <<clientVars, normVars, detectVars, cmdVars, metaVars, annotateVars>>

----------------------------------------------------------------------------
(* Program constants                                                       *)

\* for attempt := 0; attempt <= 3; attempt++
MaxRetries == 3

\* backoffDurations := []time.Duration{1s, 2s, 4s}, in seconds
backoffDurations == <<1, 2, 4>>

\* time.Sleep(backoffDurations[attempt-1]): the Go slice is indexed from 0,
\* the sequence above from 1.
BackoffExponentOff(a) == 2 * backoffDurations[a]
Backoff(a) == backoffDurations[a]

----------------------------------------------------------------------------
(* The environment: what one attempt can come back with                    *)

\* Status codes the server answers with: representatives of every class
\* the client distinguishes, and the codes at the edges of the 4xx range.
\* A code that is neither 2xx nor a 4xx other than 429 (so also a 3xx)
\* falls through to the retry branch of doRequest.
StatusCodes == {200, 201, 304, 400, 401, 403, 404, 409, 422, 423, 428, 429,
                499, 500, 503}

\* Transport-level failures of HTTPClient.Do: a connection error, or the
\* per-request deadline (http.Client.Timeout) exceeded.
TransportErrors == {"conn", "timeout"}

\* Shapes of a response body.
\*   result_json   : a JSON object with the resource fields
\*   detail_string : {"detail": "..."}
\*   detail_array  : {"detail": [...]}        (validation errors)
\*   detail_object : {"detail": {"error":..,"message":..,"code":..}}
\*   no_detail     : a JSON object without "detail"
\*   not_json      : text that json.Unmarshal rejects
\*   unreadable    : io.ReadAll fails while the body is read
BodyShapes == {"result_json", "detail_string", "detail_array", "detail_object",
               "no_detail", "not_json", "unreadable"}

\* One performRequest result: t = "resp" carries a status code; the other
\* tags are errors (code 0).
AttemptResp(code) == [t |-> "resp", code |-> code]
AttemptErr(k) == [t |-> k, code |-> 0]

NoAttempt == [t |-> "none", code |-> 0]
NoResp == [StatusCode |-> 0, Body |-> "none"]

----------------------------------------------------------------------------
(* Errors and results                                                      *)

NoDetail == [k |-> "nil", v |-> ""]
NoErr == [type |-> "nil", StatusCode |-> 0, Detail |-> NoDetail, cause |-> NoAttempt]

\* &APIError{StatusCode, Detail}
APIError(code, detail) ==
    [type |-> "APIError", StatusCode |-> code, Detail |-> detail, cause |-> NoAttempt]

\* fmt.Errorf(...): an error that is not an *APIError.  msg names the
\* format string, cause the wrapped failure.
PlainError(msg, cause) ==
    [type |-> msg, StatusCode |-> 0, Detail |-> NoDetail, cause |-> cause]

NoResult == [ID |-> "none", ProductID |-> "none", VersionID |-> "none",
             EnvironmentID |-> "none", Status |-> "none"]

----------------------------------------------------------------------------
(* Pure functions of the client                                            *)

\* resp.StatusCode >= 200 && resp.StatusCode < 300   (doRequest)
IsSuccessStatusOnly200(code) == code = 200
IsSuccessStatus(code) == code >= 200 /\ code < 300

\* resp.StatusCode >= 400 && resp.StatusCode < 500 && resp.StatusCode != 429
IsNonRetryableStatusNo404(code) == code >= 400 /\ code < 500 /\ code # 429 /\ code # 404
IsNonRetryableStatusUnbounded(code) == code >= 400 /\ code # 429
IsNonRetryableStatus(code) == code >= 400 /\ code < 500 /\ code # 429

\* APIError.IsPreflightError
IsPreflightErrorMissing423(e) == e.StatusCode = 409 \/ e.StatusCode = 428
IsPreflightErrorAny4xx(e) == e.StatusCode >= 400 /\ e.StatusCode < 500
IsPreflightError(e) == e.StatusCode = 409 \/ e.StatusCode = 423 \/ e.StatusCode = 428

\* string(body): the text of a response body of each shape.
RawBody(body) ==
    CASE body = "result_json"   -> "{\"id\": \"id\", \"status\": \"completed\"}"
      [] body = "detail_string" -> "{\"detail\": \"error message\"}"
      [] body = "detail_array"  -> "{\"detail\": [validation errors]}"
      [] body = "detail_object" -> "{\"detail\": {envelope}}"
      [] body = "no_detail"     -> "{}"
      [] body = "not_json"      -> "raw body"
      [] OTHER                  -> ""

\* The value json.Unmarshal leaves in errorResponse.Detail for a body that
\* decodes; for a body that does not decode, Detail is string(body).
DetailOfNoFallback(body) ==
    CASE body = "detail_string" -> [k |-> "string", v |-> "error message"]
      [] body = "detail_array"  -> [k |-> "array",  v |-> "validation errors"]
      [] body = "detail_object" -> [k |-> "object", v |-> "envelope"]
      [] OTHER                  -> NoDetail
DetailOf(body) ==
    CASE body = "detail_string" -> [k |-> "string", v |-> "error message"]
      [] body = "detail_array"  -> [k |-> "array",  v |-> "validation errors"]
      [] body = "detail_object" -> [k |-> "object", v |-> "envelope"]
      [] body = "not_json"      -> [k |-> "string", v |-> RawBody(body)]
      [] OTHER                  -> NoDetail

\* func (e *APIError) Error() string, as the pieces of the formatted text
ErrorString(e) ==
    CASE e.Detail.k = "string" -> <<e.Detail.v>>
      [] e.Detail.k = "array"  -> IF e.Detail.v # ""
                                  THEN <<"validation error: ", e.Detail.v>>
                                  ELSE <<"validation error">>
      [] e.Detail.k = "object" -> <<"API error: ", e.Detail.v>>
      [] OTHER                 -> <<"API error: ", "<nil>">>

\* func (e *APIError) GetPreflightDetails(): ok and the fields read from
\* the detail object
GetPreflightDetails(e) ==
    IF e.Detail.k = "object"
    THEN [ok |-> TRUE, details |-> e.Detail.v]
    ELSE [ok |-> FALSE, details |-> ""]

\* What json.Unmarshal(body, &result) stores in a BuildResponse or a
\* DeploymentResponse (BuildResponse has no EnvironmentID field).
DecodeResult(k, body) ==
    IF body = "result_json"
    THEN [ID |-> "id", ProductID |-> "product_id", VersionID |-> "version_id",
          EnvironmentID |-> IF k = "deployment" THEN "environment_id" ELSE "none",
          Status |-> "completed"]
    ELSE [ID |-> "", ProductID |-> "", VersionID |-> "",
          EnvironmentID |-> IF k = "deployment" THEN "" ELSE "none",
          Status |-> ""]

\* handleResponse(resp, &result): the error it returns and the value it
\* leaves in result.
handleResponse(k, r) ==
    IF r.Body = "unreadable"
    THEN [err |-> PlainError("failed to read response body", NoAttempt),
          result |-> NoResult]
    ELSE IF r.StatusCode >= 200 /\ r.StatusCode < 300
    THEN IF r.Body = "not_json"
         THEN [err |-> PlainError("failed to parse response", NoAttempt),
               result |-> NoResult]
         ELSE [err |-> NoErr, result |-> DecodeResult(k, r.Body)]
    ELSE [err |-> APIError(r.StatusCode, DetailOf(r.Body)), result |-> NoResult]

\* The placeholder a soft-failed call returns.
Placeholder(k) ==
    [ID |-> "", ProductID |-> "", VersionID |-> "",
     EnvironmentID |-> IF k = "deployment" THEN "" ELSE "none",
     Status |-> "not_recorded"]

\* Client.handleAPIError(err, &result): preflight errors are always
\* returned; every other error is returned when FailOnAPIError is set and
\* replaced by the placeholder otherwise.
handleAPIErrorOnlyAPIErrors(f, k, e) ==
    IF e.type # "APIError" \/ e.StatusCode = 409 \/ e.StatusCode = 423 \/ e.StatusCode = 428
    THEN [err |-> e, result |-> NoResult]
    ELSE IF f
    THEN [err |-> e, result |-> NoResult]
    ELSE [err |-> NoErr, result |-> Placeholder(k)]
handleAPIError(f, k, e) ==
    IF e.type = "APIError" /\ IsPreflightError(e)
    THEN [err |-> e, result |-> NoResult]
    ELSE IF f
    THEN [err |-> e, result |-> NoResult]
    ELSE [err |-> NoErr, result |-> Placeholder(k)]

\* Create*Event: doRequest, then handleResponse; an error of either goes
\* through handleAPIError.
CreateEventReturn(f, k, r, de) ==
    IF de # NoErr
    THEN handleAPIError(f, k, de)
    ELSE LET h == handleResponse(k, r)
         IN  IF h.err # NoErr THEN handleAPIError(f, k, h.err) ELSE h

\* doRequest: `lastErr = err` / `lastErr = fmt.Errorf("HTTP %d", ...)`:
\* the failure of the current attempt replaces the one kept so far.
RecordErrKeepFirst(le, e) == IF le = NoAttempt THEN e ELSE le
RecordErr(le, e) == e

\* The error doRequest returns together with a response that ends the
\* loop: `return resp, nil`.
TerminalErrStale(le) ==
    IF le = NoAttempt THEN NoErr ELSE PlainError("request failed", le)
TerminalErr(le) == NoErr

\* The error doRequest returns when the loop runs out:
\* fmt.Errorf("request failed after 3 retries: %w", lastErr)
ExhaustedErr(le) == PlainError("request failed after 3 retries", le)

----------------------------------------------------------------------------
(* The call, step by step                                                  *)

\* Values of the variables of a component that is not running.
NotCalled == [called |-> FALSE]
ClientIdle ==
    /\ kind = "build"
    /\ FailOnAPIError = FALSE
    /\ requestOK = TRUE
    /\ pc = "idle"
    /\ attempt = 0
    /\ lastErr = NoAttempt
    /\ sleeps = <<>>
    /\ sent = 0
    /\ inflight = 0
    /\ attempts = <<>>
    /\ resp = NoResp
    /\ doErr = NoErr
    /\ retErr = NoErr
    /\ retResult = NoResult
NormIdle ==
    /\ status = <<>>
    /\ normalized = NotCalled
    /\ renormalized = NotCalled
DetectIdle ==
    /\ env = <<>>
    /\ detected = NotCalled
    /\ autoMetadata = NotCalled
CmdIdle ==
    /\ flags = <<>>
    /\ event = NotCalled
    /\ cmdErr = NoErr
    /\ exitCode = -1
MetaIdle ==
    /\ extraMetadataStr = <<>>
    /\ userMetadata = NotCalled
    /\ autoArg = <<>>
    /\ merged = NotCalled
AnnotateIdle ==
    /\ rejection = <<>>
    /\ stdout = NotCalled

Init ==
    /\ kind \in {"build", "deployment"}
    /\ FailOnAPIError \in BOOLEAN
    /\ requestOK \in BOOLEAN
    /\ pc = "loop"
    /\ attempt = 0
    /\ lastErr = NoAttempt
    /\ sleeps = <<>>
    /\ sent = 0
    /\ inflight = 0
    /\ attempts = <<>>
    /\ resp = NoResp
    /\ doErr = NoErr
    /\ retErr = NoErr
    /\ retResult = NoResult
    /\ NormIdle /\ DetectIdle /\ CmdIdle /\ MetaIdle /\ AnnotateIdle

\* doRequest: top of one loop iteration; from the second iteration on it
\* sleeps backoffDurations[attempt-1] first.
BeginAttempt ==
    /\ pc = "loop"
    /\ attempt <= MaxRetries
    /\ sleeps' = IF attempt > 0
                 THEN Append(sleeps, Backoff(attempt))
                 ELSE sleeps
    /\ pc' = "perform"
    /\ UNCHANGED <<kind, FailOnAPIError, requestOK, attempt, lastErr, sent,
                   inflight, attempts, resp, doErr, retErr, retResult>>
    /\ UNCHANGED <<normVars, detectVars, cmdVars, metaVars, annotateVars>>

\* performRequest fails before anything is sent (json.Marshal or
\* http.NewRequest); doRequest records the error and continues.
PerformLocalError ==
    /\ pc = "perform"
    /\ ~requestOK
    /\ lastErr' = RecordErr(lastErr, AttemptErr("build"))
    /\ attempts' = Append(attempts, AttemptErr("build"))
    /\ attempt' = attempt + 1
    /\ pc' = "loop"
    /\ UNCHANGED <<kind, FailOnAPIError, requestOK, sleeps, sent, inflight,
                   resp, doErr, retErr, retResult>>
    /\ UNCHANGED <<normVars, detectVars, cmdVars, metaVars, annotateVars>>

\* performRequest: c.HTTPClient.Do(req) is called and blocks.
PerformSend ==
    /\ pc = "perform"
    /\ requestOK
    /\ sent' = sent + 1
    /\ inflight' = inflight + 1
    /\ pc' = "wait"
    /\ UNCHANGED <<kind, FailOnAPIError, requestOK, attempt, lastErr, sleeps,
                   attempts, resp, doErr, retErr, retResult>>
    /\ UNCHANGED <<normVars, detectVars, cmdVars, metaVars, annotateVars>>

\* HTTPClient.Do returns an error; doRequest: lastErr = err; continue.
TransportFailureDeadlineTerminal(e) ==
    /\ pc = "wait"
    /\ inflight' = inflight - 1
    /\ lastErr' = RecordErr(lastErr, AttemptErr(e))
    /\ attempts' = Append(attempts, AttemptErr(e))
    /\ IF e = "timeout"
       THEN /\ doErr' = PlainError("request failed", AttemptErr(e))
            /\ pc' = "create"
            /\ UNCHANGED attempt
       ELSE /\ attempt' = attempt + 1
            /\ pc' = "loop"
            /\ UNCHANGED doErr
    /\ UNCHANGED <<kind, FailOnAPIError, requestOK, sleeps, sent, resp,
                   retErr, retResult>>
    /\ UNCHANGED <<normVars, detectVars, cmdVars, metaVars, annotateVars>>
TransportFailure(e) ==
    /\ pc = "wait"
    /\ inflight' = inflight - 1
    /\ lastErr' = RecordErr(lastErr, AttemptErr(e))
    /\ attempts' = Append(attempts, AttemptErr(e))
    /\ attempt' = attempt + 1
    /\ pc' = "loop"
    /\ UNCHANGED <<kind, FailOnAPIError, requestOK, sleeps, sent, resp, doErr,
                   retErr, retResult>>
    /\ UNCHANGED <<normVars, detectVars, cmdVars, metaVars, annotateVars>>

\* HTTPClient.Do returns a response; doRequest returns it (2xx, or 4xx
\* other than 429) or records "HTTP <code>", closes the body and loops.
ResponseArrives(code, body) ==
    /\ pc = "wait"
    /\ inflight' = inflight - 1
    /\ attempts' = Append(attempts, AttemptResp(code))
    /\ IF IsSuccessStatus(code) \/ IsNonRetryableStatus(code)
       THEN /\ resp' = [StatusCode |-> code, Body |-> body]
            /\ doErr' = TerminalErr(lastErr)
            /\ pc' = "create"
            /\ UNCHANGED <<attempt, lastErr>>
       ELSE /\ lastErr' = RecordErr(lastErr, AttemptResp(code))
            /\ attempt' = attempt + 1
            /\ pc' = "loop"
            /\ UNCHANGED <<resp, doErr>>
    /\ UNCHANGED <<kind, FailOnAPIError, requestOK, sleeps, sent, retErr,
                   retResult>>
    /\ UNCHANGED <<normVars, detectVars, cmdVars, metaVars, annotateVars>>

\* doRequest: the loop condition fails; return nil and the wrapped lastErr.
Exhausted ==
    /\ pc = "loop"
    /\ attempt > MaxRetries
    /\ doErr' = ExhaustedErr(lastErr)
    /\ pc' = "create"
    /\ UNCHANGED <<kind, FailOnAPIError, requestOK, attempt, lastErr, sleeps,
                   sent, inflight, attempts, resp, retErr, retResult>>
    /\ UNCHANGED <<normVars, detectVars, cmdVars, metaVars, annotateVars>>

\* Create*Event after doRequest has returned.
CreateEvent ==
    /\ pc = "create"
    /\ LET r == CreateEventReturn(FailOnAPIError, kind, resp, doErr)
       IN  /\ retErr' = r.err
           /\ retResult' = r.result
    /\ pc' = "done"
    /\ UNCHANGED <<kind, FailOnAPIError, requestOK, attempt, lastErr, sleeps,
                   sent, inflight, attempts, resp, doErr>>
    /\ UNCHANGED <<normVars, detectVars, cmdVars, metaVars, annotateVars>>

Next ==
    \/ BeginAttempt
    \/ PerformLocalError
    \/ PerformSend
    \/ \E e \in TransportErrors : TransportFailure(e)
    \/ \E code \in StatusCodes, body \in BodyShapes : ResponseArrives(code, body)
    \/ Exhausted
    \/ CreateEvent

Spec == Init /\ [][Next]_vars

TypeOK ==
    /\ kind \in {"build", "deployment"}
    /\ FailOnAPIError \in BOOLEAN
    /\ requestOK \in BOOLEAN
    /\ pc \in {"loop", "perform", "wait", "create", "done"}
    /\ attempt \in 0..(MaxRetries + 1)
    /\ sent \in Nat
    /\ inflight \in Nat
    /\ Len(attempts) <= MaxRetries + 1

----------------------------------------------------------------------------
(* Strings as character sequences (package strings)                        *)

UpperCase == <<"A", "B", "C", "D", "E", "F", "G", "H", "I", "J", "K", "L", "M",
               "N", "O", "P", "Q", "R", "S", "T", "U", "V", "W", "X", "Y", "Z">>
LowerCase == <<"a", "b", "c", "d", "e", "f", "g", "h", "i", "j", "k", "l", "m",
               "n", "o", "p", "q", "r", "s", "t", "u", "v", "w", "x", "y", "z">>
\* unicode.IsSpace, for the characters that occur here
WhiteSpace == {" ", "\t", "\n", "\r"}

ToLowerChar(c) ==
    IF \E i \in 1..Len(UpperCase) : UpperCase[i] = c
    THEN LowerCase[CHOOSE i \in 1..Len(UpperCase) : UpperCase[i] = c]
    ELSE c
ToUpperChar(c) ==
    IF \E i \in 1..Len(LowerCase) : LowerCase[i] = c
    THEN UpperCase[CHOOSE i \in 1..Len(LowerCase) : LowerCase[i] = c]
    ELSE c

\* strings.ToLower
ToLower(str) == [i \in 1..Len(str) |-> ToLowerChar(str[i])]

\* strings.TrimSpace: drop leading and trailing white space
RECURSIVE TrimLeft(_)
TrimLeft(str) ==
    IF str # <<>> /\ Head(str) \in WhiteSpace THEN TrimLeft(Tail(str)) ELSE str
RECURSIVE TrimRight(_)
TrimRight(str) ==
    IF str # <<>> /\ str[Len(str)] \in WhiteSpace
    THEN TrimRight(SubSeq(str, 1, Len(str) - 1))
    ELSE str
TrimSpace(str) == TrimRight(TrimLeft(str))

----------------------------------------------------------------------------
(* The status normalizer (package status)                                  *)

Pending == <<"p", "e", "n", "d", "i", "n", "g">>
Started == <<"s", "t", "a", "r", "t", "e", "d">>
Completed == <<"c", "o", "m", "p", "l", "e", "t", "e", "d">>
Failed == <<"f", "a", "i", "l", "e", "d">>
Aborted == <<"a", "b", "o", "r", "t", "e", "d">>

\* var statusAliases = map[string]string{...}
statusAliases ==
    <<"p", "e", "n", "d", "i", "n", "g">> :> Pending @@
    <<"s", "t", "a", "r", "t", "e", "d">> :> Started @@
    <<"c", "o", "m", "p", "l", "e", "t", "e", "d">> :> Completed @@
    <<"f", "a", "i", "l", "e", "d">> :> Failed @@
    <<"a", "b", "o", "r", "t", "e", "d">> :> Aborted @@
    <<"q", "u", "e", "u", "e", "d">> :> Pending @@
    <<"s", "c", "h", "e", "d", "u", "l", "e", "d">> :> Pending @@
    <<"i", "n", "_", "p", "r", "o", "g", "r", "e", "s", "s">> :> Started @@
    <<"i", "n", "i", "t">> :> Started @@
    <<"b", "u", "i", "l", "d", "i", "n", "g">> :> Started @@
    <<"d", "e", "p", "l", "o", "y", "i", "n", "g">> :> Started @@
    <<"s", "u", "c", "c", "e", "s", "s">> :> Completed @@
    <<"c", "o", "m", "p", "l", "e", "t", "e">> :> Completed @@
    <<"f", "i", "n", "i", "s", "h", "e", "d">> :> Completed @@
    <<"b", "u", "i", "l", "t">> :> Completed @@
    <<"d", "e", "p", "l", "o", "y", "e", "d">> :> Completed @@
    <<"f", "a", "i", "l">> :> Failed @@
    <<"f", "a", "i", "l", "u", "r", "e">> :> Failed @@
    <<"e", "r", "r", "o", "r">> :> Failed @@
    <<"a", "b", "o", "r", "t">> :> Aborted @@
    <<"c", "a", "n", "c", "e", "l", "l", "e", "d">> :> Aborted @@
    <<"c", "a", "n", "c", "e", "l">> :> Aborted @@
    <<"s", "k", "i", "p", "p", "e", "d">> :> Aborted

\* func Normalize(status string) (canonical string, wasNormalized bool)
NormalizeFlagFromInput(s) ==
    LET n == ToLower(TrimSpace(s))
    IN  IF n \in DOMAIN statusAliases
        THEN [canonical |-> statusAliases[n], wasNormalized |-> s # statusAliases[n]]
        ELSE [canonical |-> s, wasNormalized |-> FALSE]
NormalizeReturnsCleaned(s) ==
    LET n == ToLower(TrimSpace(s))
    IN  IF n \in DOMAIN statusAliases
        THEN [canonical |-> statusAliases[n], wasNormalized |-> n # statusAliases[n]]
        ELSE [canonical |-> n, wasNormalized |-> FALSE]
Normalize(s) ==
    LET n == ToLower(TrimSpace(s))
    IN  IF n \in DOMAIN statusAliases
        THEN [canonical |-> statusAliases[n], wasNormalized |-> n # statusAliases[n]]
        ELSE [canonical |-> s, wasNormalized |-> FALSE]

\* func IsValid(status string) bool
IsValid(s) == ToLower(TrimSpace(s)) \in DOMAIN statusAliases

\* func GetCanonical(status string) string
GetCanonical(s) == Normalize(s).canonical

\* Inputs: every word of the table and some words outside it, with the
\* characters at up to MaxCasePos chosen positions (or all of them) in upper
\* case, and white space around.
MaxCasePos == 3
UnknownWords ==
    { <<>>,
      <<"b", "o", "g", "u", "s">>,
      <<"d", "o", "n", "e">>,
      <<"s", "u", "c", "c", "e", "s">>,
      <<"f", "a", "i", "l", "e", "d", "!">>,
      <<"i", "n", " ", "p", "r", "o", "g", "r", "e", "s", "s">>,
      <<"c", "o", "m", "p", "l", "e", "t", "e", "d", "2">> }
Pads == { <<>>, <<" ">>, <<"\t", " ">>, <<"\n">> }
WithCase(w, S) == [i \in 1..Len(w) |-> IF i \in S THEN ToUpperChar(w[i]) ELSE w[i]]
Casings(w) ==
    { WithCase(w, S) : S \in SUBSET (1..MaxCasePos) } \cup { WithCase(w, 1..Len(w)) }

NormInit ==
    /\ \E w \in DOMAIN statusAliases \cup UnknownWords :
          \E c \in Casings(w), l \in Pads, r \in Pads : status = l \o c \o r
    /\ normalized = NotCalled
    /\ renormalized = NotCalled
    /\ ClientIdle /\ DetectIdle /\ CmdIdle /\ MetaIdle /\ AnnotateIdle

\* A caller asks Normalize and IsValid about the input ...
CallNormalize ==
    /\ ~normalized.called
    /\ normalized' = [called |-> TRUE,
                      canonical |-> Normalize(status).canonical,
                      wasNormalized |-> Normalize(status).wasNormalized,
                      valid |-> IsValid(status)]
    /\ UNCHANGED <<status, renormalized>>
    /\ UNCHANGED <<clientVars, detectVars, cmdVars, metaVars, annotateVars>>

\* ... and then passes the returned value through Normalize and IsValid
\* once more.
CallNormalizeAgain ==
    /\ normalized.called
    /\ ~renormalized.called
    /\ renormalized' = [called |-> TRUE,
                        canonical |-> Normalize(normalized.canonical).canonical,
                        wasNormalized |-> Normalize(normalized.canonical).wasNormalized,
                        valid |-> IsValid(normalized.canonical)]
    /\ UNCHANGED <<status, normalized>>
    /\ UNCHANGED <<clientVars, detectVars, cmdVars, metaVars, annotateVars>>

NormNext == CallNormalize \/ CallNormalizeAgain

NormSpec == NormInit /\ [][NormNext]_vars

----------------------------------------------------------------------------
(* The CI/CD environment detector (package cicd)                           *)

\* os.Getenv: an unset variable reads as the empty string.
Getenv(e, name) == IF name \in DOMAIN e THEN e[name] ELSE <<>>

\* strings.Split(str, sep) for a one-character separator
RECURSIVE Split(_, _)
Split(str, sep) ==
    IF \E i \in 1..Len(str) : str[i] = sep
    THEN LET i == CHOOSE k \in 1..Len(str) :
                      str[k] = sep /\ \A j \in 1..(k - 1) : str[j] # sep
         IN  <<SubSeq(str, 1, i - 1)>> \o Split(SubSeq(str, i + 1, Len(str)), sep)
    ELSE <<str>>

\* parts[len(parts)-1] of strings.Split(str, "/")
FirstSegment(str) == Split(str, "/")[1]
LastSegment(str) == Split(str, "/")[Len(Split(str, "/"))]

\* strings.TrimPrefix / strings.TrimSuffix
HasPrefix(str, p) == Len(str) >= Len(p) /\ SubSeq(str, 1, Len(p)) = p
TrimPrefix(str, p) ==
    IF HasPrefix(str, p) THEN SubSeq(str, Len(p) + 1, Len(str)) ELSE str
HasSuffix(str, p) ==
    Len(str) >= Len(p) /\ SubSeq(str, Len(str) - Len(p) + 1, Len(str)) = p
TrimSuffix(str, p) ==
    IF HasSuffix(str, p) THEN SubSeq(str, 1, Len(str) - Len(p)) ELSE str

\* strings.Replace(str, old, new, 1) for one-character old and new
ReplaceFirst(str, old, new) ==
    IF \E i \in 1..Len(str) : str[i] = old
    THEN LET i == CHOOSE k \in 1..Len(str) :
                      str[k] = old /\ \A j \in 1..(k - 1) : str[j] # old
         IN  [str EXCEPT ![i] = new]
    ELSE str

\* func normalizeGitURL(url string) string
normalizeGitURL(url) ==
    LET u1 == TrimPrefix(url, <<"h", "t", "t", "p", "s", ":", "/", "/">>)
        u2 == TrimPrefix(u1, <<"h", "t", "t", "p", ":", "/", "/">>)
        u3 == TrimPrefix(u2, <<"g", "i", "t", "@">>)
        u4 == TrimSuffix(u3, <<".", "g", "i", "t">>)
    IN  ReplaceFirst(u4, ":", "/")

\* const System...: the systems in the order detectSystem probes them
Systems == <<"github", "gitlab", "jenkins", "circleci", "bitbucket",
             "azure-devops", "travis", "rundeck">>
SystemUnknown == "unknown"

\* &DetectedValues{System: sys}
Blank(sys) ==
    [System |-> sys, Product |-> <<>>, Version |-> <<>>, SCMRepository |-> <<>>,
     SCMSha |-> <<>>, SCMBranch |-> <<>>, BuildNumber |-> <<>>, BuildURL |-> <<>>,
     InvokeID |-> <<>>, BuiltBy |-> <<>>, BuiltByEmail |-> <<>>, BuiltByName |-> <<>>]

\* func detectSystem() System
detectSystemGitLabFirst(e) ==
    IF Getenv(e, "GITLAB_CI") = <<"t", "r", "u", "e">> THEN "gitlab"
    ELSE IF Getenv(e, "GITHUB_ACTIONS") = <<"t", "r", "u", "e">> THEN "github"
    ELSE IF Getenv(e, "JENKINS_URL") # <<>> THEN "jenkins"
    ELSE IF Getenv(e, "CIRCLECI") = <<"t", "r", "u", "e">> THEN "circleci"
    ELSE IF Getenv(e, "BITBUCKET_BUILD_NUMBER") # <<>> THEN "bitbucket"
    ELSE IF Getenv(e, "TF_BUILD") = <<"T", "r", "u", "e">> THEN "azure-devops"
    ELSE IF Getenv(e, "TRAVIS") = <<"t", "r", "u", "e">> THEN "travis"
    ELSE IF Getenv(e, "RD_JOB_ID") # <<>> THEN "rundeck"
    ELSE SystemUnknown
detectSystem(e) ==
    IF Getenv(e, "GITHUB_ACTIONS") = <<"t", "r", "u", "e">> THEN "github"
    ELSE IF Getenv(e, "GITLAB_CI") = <<"t", "r", "u", "e">> THEN "gitlab"
    ELSE IF Getenv(e, "JENKINS_URL") # <<>> THEN "jenkins"
    ELSE IF Getenv(e, "CIRCLECI") = <<"t", "r", "u", "e">> THEN "circleci"
    ELSE IF Getenv(e, "BITBUCKET_BUILD_NUMBER") # <<>> THEN "bitbucket"
    ELSE IF Getenv(e, "TF_BUILD") = <<"T", "r", "u", "e">> THEN "azure-devops"
    ELSE IF Getenv(e, "TRAVIS") = <<"t", "r", "u", "e">> THEN "travis"
    ELSE IF Getenv(e, "RD_JOB_ID") # <<>> THEN "rundeck"
    ELSE SystemUnknown

\* d.SCMSha[:8]
ShortSha7(sha) == SubSeq(sha, 1, 7)
ShortSha(sha) == SubSeq(sha, 1, 8)

\* A routine either completes with the values d or stops with a run-time
\* panic.
Returns(d) == [panicked |-> FALSE, d |-> d]
Panics(d) == [panicked |-> TRUE, d |-> d]

\* `if d.Version == "" && d.SCMSha != "" { d.Version = d.SCMSha[:8] }`:
\* slicing a string shorter than 8 bytes panics (slice bounds out of range).
VersionFromSha(d) ==
    IF d.Version = <<>> /\ d.SCMSha # <<>>
    THEN IF Len(d.SCMSha) < 8
         THEN Panics(d)
         ELSE Returns([d EXCEPT !.Version = ShortSha(d.SCMSha)])
    ELSE Returns(d)

\* `if d.Version == "" && d.BuildNumber != "" { d.Version = d.BuildNumber }`
VersionFromBuildNumber(d) ==
    IF d.Version = <<>> /\ d.BuildNumber # <<>>
    THEN Returns([d EXCEPT !.Version = d.BuildNumber])
    ELSE Returns(d)

\* detectGitHub: the build URL
GitHubBuildURLNoRunIDCheck(serverURL, repo, runID) ==
    IF serverURL # <<>> /\ repo # <<>>
    THEN serverURL \o <<"/">> \o repo \o <<"/", "a", "c", "t", "i", "o", "n", "s", "/", "r", "u", "n", "s", "/">> \o runID
    ELSE <<>>
GitHubBuildURL(serverURL, repo, runID) ==
    IF serverURL # <<>> /\ repo # <<>> /\ runID # <<>>
    THEN serverURL \o <<"/">> \o repo \o <<"/", "a", "c", "t", "i", "o", "n", "s", "/", "r", "u", "n", "s", "/">> \o runID
    ELSE <<>>

\* detectBitbucket: the build URL
BitbucketBuildURL(repoFullName, buildNum) ==
    IF repoFullName # <<>> /\ buildNum # <<>>
    THEN <<"h", "t", "t", "p", "s", ":", "/", "/", "b", "i", "t", "b", "u", "c", "k", "e", "t", ".", "o", "r", "g", "/">> \o repoFullName
         \o <<"/", "p", "i", "p", "e", "l", "i", "n", "e", "s", "/", "r", "e", "s", "u", "l", "t", "s", "/">> \o buildNum
    ELSE <<>>

\* detectRundeck: the build URL
RundeckBuildURL(serverURL, project, execID) ==
    IF serverURL # <<>> /\ project # <<>> /\ execID # <<>>
    THEN serverURL \o <<"/", "p", "r", "o", "j", "e", "c", "t", "/">> \o project
         \o <<"/", "e", "x", "e", "c", "u", "t", "i", "o", "n", "/", "s", "h", "o", "w", "/">> \o execID
    ELSE <<>>

\* func detectGitHub(d *DetectedValues)
detectGitHub(e, d) ==
    LET d1 == [d EXCEPT !.SCMRepository = Getenv(e, "GITHUB_REPOSITORY"),
                        !.SCMSha = Getenv(e, "GITHUB_SHA"),
                        !.SCMBranch = Getenv(e, "GITHUB_REF_NAME"),
                        !.InvokeID = Getenv(e, "GITHUB_RUN_ID"),
                        !.BuildNumber = Getenv(e, "GITHUB_RUN_NUMBER"),
                        !.BuiltBy = Getenv(e, "GITHUB_ACTOR"),
                        !.BuildURL = GitHubBuildURL(Getenv(e, "GITHUB_SERVER_URL"),
                                                    Getenv(e, "GITHUB_REPOSITORY"),
                                                    Getenv(e, "GITHUB_RUN_ID"))]
        parts == Split(d1.SCMRepository, "/")
        d2 == IF d1.Product = <<>> /\ d1.SCMRepository # <<>> /\ Len(parts) = 2
              THEN [d1 EXCEPT !.Product = parts[2]]
              ELSE d1
    IN  VersionFromSha(d2)

\* func detectGitLab(d *DetectedValues)
detectGitLab(e, d) ==
    LET d1 == [d EXCEPT !.SCMRepository = Getenv(e, "CI_PROJECT_PATH"),
                        !.SCMSha = Getenv(e, "CI_COMMIT_SHA"),
                        !.SCMBranch = Getenv(e, "CI_COMMIT_REF_NAME"),
                        !.InvokeID = Getenv(e, "CI_PIPELINE_ID"),
                        !.BuildNumber = Getenv(e, "CI_PIPELINE_IID"),
                        !.BuildURL = Getenv(e, "CI_PIPELINE_URL"),
                        !.BuiltBy = Getenv(e, "GITLAB_USER_LOGIN"),
                        !.BuiltByEmail = Getenv(e, "GITLAB_USER_EMAIL"),
                        !.BuiltByName = Getenv(e, "GITLAB_USER_NAME")]
        d2 == IF d1.Product = <<>> /\ d1.SCMRepository # <<>>
              THEN [d1 EXCEPT !.Product = LastSegment(d1.SCMRepository)]
              ELSE d1
    IN  VersionFromSha(d2)

\* func detectJenkins(d *DetectedValues)
detectJenkins(e, d) ==
    LET d1 == [d EXCEPT !.SCMRepository = normalizeGitURL(Getenv(e, "GIT_URL")),
                        !.SCMSha = Getenv(e, "GIT_COMMIT"),
                        !.SCMBranch = Getenv(e, "GIT_BRANCH"),
                        !.BuildNumber = Getenv(e, "BUILD_NUMBER"),
                        !.InvokeID = Getenv(e, "BUILD_ID"),
                        !.BuildURL = Getenv(e, "BUILD_URL"),
                        !.BuiltBy = Getenv(e, "BUILD_USER"),
                        !.BuiltByEmail = Getenv(e, "BUILD_USER_EMAIL")]
        d2 == IF d1.Product = <<>> /\ d1.SCMRepository # <<>>
              THEN [d1 EXCEPT !.Product =
                        TrimSuffix(LastSegment(d1.SCMRepository), <<".", "g", "i", "t">>)]
              ELSE d1
    IN  VersionFromBuildNumber(d2)

\* func detectCircleCI(d *DetectedValues)
detectCircleCI(e, d) ==
    LET username == Getenv(e, "CIRCLE_PROJECT_USERNAME")
        reponame == Getenv(e, "CIRCLE_PROJECT_REPONAME")
        d1 == [d EXCEPT !.SCMRepository = IF username # <<>> /\ reponame # <<>>
                                          THEN username \o <<"/">> \o reponame
                                          ELSE <<>>,
                        !.SCMSha = Getenv(e, "CIRCLE_SHA1"),
                        !.SCMBranch = IF Getenv(e, "CIRCLE_BRANCH") # <<>>
                                      THEN Getenv(e, "CIRCLE_BRANCH")
                                      ELSE Getenv(e, "CIRCLE_TAG"),
                        !.BuildNumber = Getenv(e, "CIRCLE_BUILD_NUM"),
                        !.InvokeID = Getenv(e, "CIRCLE_WORKFLOW_ID"),
                        !.BuildURL = Getenv(e, "CIRCLE_BUILD_URL"),
                        !.BuiltBy = Getenv(e, "CIRCLE_USERNAME")]
        d2 == IF d1.Product = <<>> /\ reponame # <<>>
              THEN [d1 EXCEPT !.Product = reponame]
              ELSE d1
    IN  VersionFromSha(d2)

\* func detectBitbucket(d *DetectedValues)
detectBitbucket(e, d) ==
    LET repoSlug == Getenv(e, "BITBUCKET_REPO_SLUG")
        d1 == [d EXCEPT !.SCMRepository = Getenv(e, "BITBUCKET_REPO_FULL_NAME"),
                        !.SCMSha = Getenv(e, "BITBUCKET_COMMIT"),
                        !.SCMBranch = IF Getenv(e, "BITBUCKET_BRANCH") # <<>>
                                      THEN Getenv(e, "BITBUCKET_BRANCH")
                                      ELSE Getenv(e, "BITBUCKET_TAG"),
                        !.BuildNumber = Getenv(e, "BITBUCKET_BUILD_NUMBER"),
                        !.InvokeID = Getenv(e, "BITBUCKET_PIPELINE_UUID"),
                        !.BuildURL = BitbucketBuildURL(
                                         Getenv(e, "BITBUCKET_REPO_FULL_NAME"),
                                         Getenv(e, "BITBUCKET_BUILD_NUMBER"))]
        d2 == IF d1.Product = <<>> /\ repoSlug # <<>>
              THEN [d1 EXCEPT !.Product = repoSlug]
              ELSE d1
    IN  VersionFromSha(d2)

\* func detectAzure(d *DetectedValues)
detectAzure(e, d) ==
    LET d1 == [d EXCEPT !.SCMRepository = Getenv(e, "BUILD_REPOSITORY_NAME"),
                        !.SCMSha = Getenv(e, "BUILD_SOURCEVERSION"),
                        !.SCMBranch = Getenv(e, "BUILD_SOURCEBRANCHNAME"),
                        !.BuildNumber = Getenv(e, "BUILD_BUILDNUMBER"),
                        !.InvokeID = Getenv(e, "BUILD_BUILDID"),
                        !.BuildURL = Getenv(e, "BUILD_BUILDURI"),
                        !.BuiltBy = Getenv(e, "BUILD_REQUESTEDFOR"),
                        !.BuiltByEmail = Getenv(e, "BUILD_REQUESTEDFOREMAIL")]
        d2 == IF d1.Product = <<>> /\ d1.SCMRepository # <<>>
              THEN [d1 EXCEPT !.Product = LastSegment(d1.SCMRepository)]
              ELSE d1
    IN  VersionFromBuildNumber(d2)

\* func detectTravis(d *DetectedValues)
detectTravis(e, d) ==
    LET d1 == [d EXCEPT !.SCMRepository = Getenv(e, "TRAVIS_REPO_SLUG"),
                        !.SCMSha = Getenv(e, "TRAVIS_COMMIT"),
                        !.SCMBranch = IF Getenv(e, "TRAVIS_BRANCH") # <<>>
                                      THEN Getenv(e, "TRAVIS_BRANCH")
                                      ELSE Getenv(e, "TRAVIS_TAG"),
                        !.BuildNumber = Getenv(e, "TRAVIS_BUILD_NUMBER"),
                        !.InvokeID = Getenv(e, "TRAVIS_BUILD_ID"),
                        !.BuildURL = Getenv(e, "TRAVIS_BUILD_WEB_URL")]
        parts == Split(d1.SCMRepository, "/")
        d2 == IF d1.Product = <<>> /\ d1.SCMRepository # <<>> /\ Len(parts) = 2
              THEN [d1 EXCEPT !.Product = parts[2]]
              ELSE d1
    IN  VersionFromSha(d2)

\* func detectRundeck(d *DetectedValues)
detectRundeck(e, d) ==
    LET execID == Getenv(e, "RD_JOB_EXECID")
        d1 == [d EXCEPT !.BuildNumber = Getenv(e, "RD_JOB_EXECID"),
                        !.InvokeID = Getenv(e, "RD_JOB_EXECID"),
                        !.BuiltBy = IF Getenv(e, "RD_JOB_USERNAME") # <<>>
                                    THEN Getenv(e, "RD_JOB_USERNAME")
                                    ELSE Getenv(e, "RD_JOB_USER_NAME"),
                        !.BuildURL = RundeckBuildURL(Getenv(e, "RD_JOB_SERVERURL"),
                                                     Getenv(e, "RD_JOB_PROJECT"),
                                                     Getenv(e, "RD_JOB_EXECID"))]
        d2 == IF d1.Product = <<>>
              THEN [d1 EXCEPT !.Product = Getenv(e, "RD_JOB_NAME")]
              ELSE d1
    IN  IF d2.Version = <<>> /\ execID # <<>>
        THEN Returns([d2 EXCEPT !.Version = execID])
        ELSE Returns(d2)

\* func Detect() *DetectedValues: the values it returns, or the routine in
\* which it panicked.
Detect(e) ==
    LET sys == detectSystem(e)
        d == Blank(sys)
        r == CASE sys = "github"       -> detectGitHub(e, d)
               [] sys = "gitlab"       -> detectGitLab(e, d)
               [] sys = "jenkins"      -> detectJenkins(e, d)
               [] sys = "circleci"     -> detectCircleCI(e, d)
               [] sys = "bitbucket"    -> detectBitbucket(e, d)
               [] sys = "azure-devops" -> detectAzure(e, d)
               [] sys = "travis"       -> detectTravis(e, d)
               [] sys = "rundeck"      -> detectRundeck(e, d)
               [] OTHER                -> Returns(d)
    IN  IF r.panicked
        THEN [called |-> TRUE, panicked |-> TRUE, System |-> sys]
        ELSE [called |-> TRUE, panicked |-> FALSE, System |-> sys, v |-> r.d]

\* A Go map[string]interface{}: the nil map, or a map with its entries.
NilMap == [nil |-> TRUE, kv |-> << >>]
MakeMap == [nil |-> FALSE, kv |-> << >>]
MapLen(m) == Cardinality(DOMAIN m.kv)
MapPut(m, key, value) == [m EXCEPT !.kv = (key :> value) @@ m.kv]

\* func addIfPresent(m map[string]interface{}, key, value string)
addIfPresentAlways(m, key, value) == MapPut(m, key, value)
addIfPresent(m, key, value) ==
    IF value # <<>> THEN MapPut(m, key, value) ELSE m

\* The keys ExtraMetadata adds for each system and the variable each one is
\* read from, in the order of the addIfPresent calls.
metadataKeys(sys) ==
    CASE sys = "github" ->
            << <<"vi_gh_workflow", "GITHUB_WORKFLOW">>,
               <<"vi_gh_job", "GITHUB_JOB">>,
               <<"vi_gh_run_attempt", "GITHUB_RUN_ATTEMPT">>,
               <<"vi_gh_event_name", "GITHUB_EVENT_NAME">>,
               <<"vi_gh_ref", "GITHUB_REF">>,
               <<"vi_gh_head_ref", "GITHUB_HEAD_REF">>,
               <<"vi_gh_base_ref", "GITHUB_BASE_REF">> >>
      [] sys = "gitlab" ->
            << <<"vi_gl_pipeline_id", "CI_PIPELINE_ID">>,
               <<"vi_gl_pipeline_url", "CI_PIPELINE_URL">>,
               <<"vi_gl_job_id", "CI_JOB_ID">>,
               <<"vi_gl_job_name", "CI_JOB_NAME">>,
               <<"vi_gl_job_url", "CI_JOB_URL">>,
               <<"vi_gl_pipeline_source", "CI_PIPELINE_SOURCE">> >>
      [] sys = "jenkins" ->
            << <<"vi_jenkins_job_name", "JOB_NAME">>,
               <<"vi_jenkins_build_url", "BUILD_URL">>,
               <<"vi_jenkins_node_name", "NODE_NAME">>,
               <<"vi_jenkins_executor_number", "EXECUTOR_NUMBER">> >>
      [] sys = "circleci" ->
            << <<"vi_circle_workflow_id", "CIRCLE_WORKFLOW_ID">>,
               <<"vi_circle_workflow_job_id", "CIRCLE_WORKFLOW_JOB_ID">>,
               <<"vi_circle_job_name", "CIRCLE_JOB">>,
               <<"vi_circle_node_index", "CIRCLE_NODE_INDEX">> >>
      [] sys = "bitbucket" ->
            << <<"vi_bb_pipeline_uuid", "BITBUCKET_PIPELINE_UUID">>,
               <<"vi_bb_step_uuid", "BITBUCKET_STEP_UUID">>,
               <<"vi_bb_workspace", "BITBUCKET_WORKSPACE">>,
               <<"vi_bb_repo_slug", "BITBUCKET_REPO_SLUG">> >>
      [] sys = "azure-devops" ->
            << <<"vi_azure_build_id", "BUILD_BUILDID">>,
               <<"vi_azure_definition_name", "BUILD_DEFINITIONNAME">>,
               <<"vi_azure_agent_name", "AGENT_NAME">>,
               <<"vi_azure_team_project", "SYSTEM_TEAMPROJECT">> >>
      [] sys = "travis" ->
            << <<"vi_travis_build_id", "TRAVIS_BUILD_ID">>,
               <<"vi_travis_job_id", "TRAVIS_JOB_ID">>,
               <<"vi_travis_job_number", "TRAVIS_JOB_NUMBER">>,
               <<"vi_travis_event_type", "TRAVIS_EVENT_TYPE">> >>
      [] sys = "rundeck" ->
            << <<"vi_rd_job_id", "RD_JOB_ID">>,
               <<"vi_rd_job_execid", "RD_JOB_EXECID">>,
               <<"vi_rd_job_serverurl", "RD_JOB_SERVERURL">>,
               <<"vi_rd_job_project", "RD_JOB_PROJECT">>,
               <<"vi_rd_job_name", "RD_JOB_NAME">>,
               <<"vi_rd_job_group", "RD_JOB_GROUP">>,
               <<"vi_rd_job_url", "RD_JOB_URL">> >>
      [] OTHER -> << >>

\* func (d *DetectedValues) ExtraMetadata() map[string]interface{}
RECURSIVE addAll(_, _, _)
addAll(m, table, e) ==
    IF table = << >> THEN m
    ELSE addAll(addIfPresent(m, table[1][1], Getenv(e, table[1][2])),
                Tail(table), e)
ExtraMetadata(e, d) == addAll(MakeMap, metadataKeys(d.System), e)

\* Environment snapshots.  At most MaxMarkers systems have their marker
\* set, possibly one flag-valued marker holds a value that does not match,
\* and the variables of every system are filled from one profile: the shape
\* of the repository name (repoP segments), the commit SHA (absent, 10
\* characters or 4 characters) and which of the optional parts are present.
\* The only capital letter in a value is the one that tells its system.
MaxMarkers == 2
SystemSet == { Systems[i] : i \in 1..Len(Systems) }
FlagSystems == {"github", "gitlab", "circleci", "azure-devops", "travis"}
Tag(sys) ==
    CASE sys = "github" -> "G" [] sys = "gitlab" -> "L" [] sys = "jenkins" -> "J"
      [] sys = "circleci" -> "C" [] sys = "bitbucket" -> "B"
      [] sys = "azure-devops" -> "Z" [] sys = "travis" -> "T"
      [] sys = "rundeck" -> "K"
MarkerVar(sys) ==
    CASE sys = "github" -> "GITHUB_ACTIONS" [] sys = "gitlab" -> "GITLAB_CI"
      [] sys = "jenkins" -> "JENKINS_URL" [] sys = "circleci" -> "CIRCLECI"
      [] sys = "bitbucket" -> "BITBUCKET_BUILD_NUMBER"
      [] sys = "azure-devops" -> "TF_BUILD" [] sys = "travis" -> "TRAVIS"
      [] sys = "rundeck" -> "RD_JOB_ID"
MarkerOn(sys) ==
    CASE sys = "jenkins" -> <<"h", "t", "t", "p", "s", ":", "/", "/", "c", "i">>
      [] sys = "bitbucket" -> <<"7", "B">>
      [] sys = "azure-devops" -> <<"T", "r", "u", "e">>
      [] sys = "rundeck" -> <<"5">>
      [] OTHER -> <<"t", "r", "u", "e">>
MarkerOff(sys) ==
    CASE sys = "azure-devops" -> <<"t", "r", "u", "e">>
      [] sys = "gitlab" -> <<"T", "R", "U", "E">>
      [] sys = "travis" -> <<"1">>
      [] OTHER -> <<"f", "a", "l", "s", "e">>
RepoProfiles == 0..3
ShaProfiles == {"none", "full", "short"}
OptionalParts == {"server", "id", "num", "project"}
RepoValue(t, p) ==
    CASE p = 0 -> <<>>
      [] p = 1 -> <<t>>
      [] p = 2 -> <<"o", "/", t>>
      [] p = 3 -> <<"g", "/", "s", "/", t>>
GitURLValue(t, p) ==
    CASE p = 0 -> <<>>
      [] p = 1 -> <<"h", "t", "t", "p", "s", ":", "/", "/", "h", "/", "o", "/">> \o <<t>> \o <<".", "g", "i", "t">>
      [] p = 2 -> <<"g", "i", "t", "@", "h", ":", "o", "/">> \o <<t>> \o <<".", "g", "i", "t">>
      [] p = 3 -> <<"h", "t", "t", "p", ":", "/", "/", "h", "/", "g", "/", "s", "/">> \o <<t>>
ShaValue(t, s) ==
    CASE s = "none"  -> <<>>
      [] s = "full"  -> <<t, "0", "1", "2", "3", "4", "5", "6", "7", "8">>
      [] s = "short" -> <<t, "0", "1", "2">>
Opt(u, part, value) == IF part \in u THEN value ELSE <<>>

DataEnv(p, s, u) ==
    ("GITHUB_REPOSITORY" :> RepoValue("G", p)) @@
    ("GITHUB_SHA" :> ShaValue("G", s)) @@
    ("GITHUB_REF_NAME" :> <<"b", "G">>) @@
    ("GITHUB_RUN_ID" :> Opt(u, "id", <<"i", "G">>)) @@
    ("GITHUB_RUN_NUMBER" :> Opt(u, "num", <<"n", "G">>)) @@
    ("GITHUB_ACTOR" :> <<"a", "G">>) @@
    ("GITHUB_SERVER_URL" :> Opt(u, "server", <<"h", "t", "t", "p", "s", ":", "/", "/", "h", "G">>)) @@
    ("CI_PROJECT_PATH" :> RepoValue("L", p)) @@
    ("CI_COMMIT_SHA" :> ShaValue("L", s)) @@
    ("CI_COMMIT_REF_NAME" :> <<"b", "L">>) @@
    ("CI_PIPELINE_ID" :> Opt(u, "id", <<"i", "L">>)) @@
    ("CI_PIPELINE_IID" :> Opt(u, "num", <<"n", "L">>)) @@
    ("CI_PIPELINE_URL" :> Opt(u, "server", <<"h", "t", "t", "p", "s", ":", "/", "/", "h", "L", "/", "p">>)) @@
    ("GITLAB_USER_LOGIN" :> <<"a", "L">>) @@
    ("GITLAB_USER_EMAIL" :> <<"e", "L">>) @@
    ("GITLAB_USER_NAME" :> <<"m", "L">>) @@
    ("GIT_URL" :> GitURLValue("J", p)) @@
    ("GIT_COMMIT" :> ShaValue("J", s)) @@
    ("GIT_BRANCH" :> <<"b", "J">>) @@
    ("BUILD_NUMBER" :> Opt(u, "num", <<"n", "J">>)) @@
    ("BUILD_ID" :> Opt(u, "id", <<"i", "J">>)) @@
    ("BUILD_URL" :> Opt(u, "server", <<"h", "t", "t", "p", "s", ":", "/", "/", "h", "J", "/", "b">>)) @@
    ("BUILD_USER" :> <<"a", "J">>) @@
    ("BUILD_USER_EMAIL" :> <<"e", "J">>) @@
    ("CIRCLE_PROJECT_USERNAME" :> IF p >= 2 THEN <<"o">> ELSE <<>>) @@
    ("CIRCLE_PROJECT_REPONAME" :> IF p >= 1 THEN <<"C">> ELSE <<>>) @@
    ("CIRCLE_SHA1" :> ShaValue("C", s)) @@
    ("CIRCLE_BRANCH" :> Opt(u, "id", <<"b", "C">>)) @@
    ("CIRCLE_TAG" :> <<"v", "C">>) @@
    ("CIRCLE_BUILD_NUM" :> Opt(u, "num", <<"n", "C">>)) @@
    ("CIRCLE_WORKFLOW_ID" :> Opt(u, "id", <<"i", "C">>)) @@
    ("CIRCLE_BUILD_URL" :> Opt(u, "server", <<"h", "t", "t", "p", "s", ":", "/", "/", "h", "C", "/", "b">>)) @@
    ("CIRCLE_USERNAME" :> <<"a", "C">>) @@
    ("BITBUCKET_REPO_FULL_NAME" :> RepoValue("B", p)) @@
    ("BITBUCKET_REPO_SLUG" :> IF p \in {1, 2} THEN <<"B">> ELSE <<>>) @@
    ("BITBUCKET_COMMIT" :> ShaValue("B", s)) @@
    ("BITBUCKET_BRANCH" :> Opt(u, "id", <<"b", "B">>)) @@
    ("BITBUCKET_TAG" :> <<"v", "B">>) @@
    ("BITBUCKET_PIPELINE_UUID" :> Opt(u, "id", <<"i", "B">>)) @@
    ("BUILD_REPOSITORY_NAME" :> RepoValue("Z", p)) @@
    ("BUILD_SOURCEVERSION" :> ShaValue("Z", s)) @@
    ("BUILD_SOURCEBRANCHNAME" :> <<"b", "Z">>) @@
    ("BUILD_BUILDNUMBER" :> Opt(u, "num", <<"n", "Z">>)) @@
    ("BUILD_BUILDID" :> Opt(u, "id", <<"i", "Z">>)) @@
    ("BUILD_BUILDURI" :> Opt(u, "server", <<"v", "s", "t", "f", "s", ":", "/", "/", "Z">>)) @@
    ("BUILD_REQUESTEDFOR" :> <<"a", "Z">>) @@
    ("BUILD_REQUESTEDFOREMAIL" :> <<"e", "Z">>) @@
    ("TRAVIS_REPO_SLUG" :> RepoValue("T", p)) @@
    ("TRAVIS_COMMIT" :> ShaValue("T", s)) @@
    ("TRAVIS_BRANCH" :> Opt(u, "id", <<"b", "T">>)) @@
    ("TRAVIS_TAG" :> <<"v", "T">>) @@
    ("TRAVIS_BUILD_NUMBER" :> Opt(u, "num", <<"n", "T">>)) @@
    ("TRAVIS_BUILD_ID" :> Opt(u, "id", <<"i", "T">>)) @@
    ("TRAVIS_BUILD_WEB_URL" :> Opt(u, "server", <<"h", "t", "t", "p", "s", ":", "/", "/", "h", "T", "/", "b">>)) @@
    ("RD_JOB_EXECID" :> Opt(u, "id", <<"i", "K">>)) @@
    ("RD_JOB_USERNAME" :> Opt(u, "num", <<"a", "K">>)) @@
    ("RD_JOB_USER_NAME" :> <<"u", "K">>) @@
    ("RD_JOB_SERVERURL" :> Opt(u, "server", <<"h", "t", "t", "p", "s", ":", "/", "/", "h", "K">>)) @@
    ("RD_JOB_PROJECT" :> Opt(u, "project", <<"p", "K">>)) @@
    ("RD_JOB_NAME" :> IF p >= 1 THEN <<"j", "K">> ELSE <<>>)

\* The variables only ExtraMetadata reads, present or absent with the
\* optional parts of the profile.
MetadataEnv(u) ==
    ("GITHUB_WORKFLOW" :> Opt(u, "id", <<"x", "1", "G">>)) @@
    ("GITHUB_JOB" :> Opt(u, "num", <<"x", "2", "G">>)) @@
    ("GITHUB_RUN_ATTEMPT" :> Opt(u, "server", <<"x", "3", "G">>)) @@
    ("GITHUB_EVENT_NAME" :> Opt(u, "project", <<"x", "4", "G">>)) @@
    ("GITHUB_REF" :> Opt(u, "id", <<"x", "5", "G">>)) @@
    ("GITHUB_HEAD_REF" :> Opt(u, "num", <<"x", "6", "G">>)) @@
    ("GITHUB_BASE_REF" :> Opt(u, "server", <<"x", "7", "G">>)) @@
    ("CI_JOB_ID" :> Opt(u, "project", <<"x", "8", "L">>)) @@
    ("CI_JOB_NAME" :> Opt(u, "id", <<"x", "9", "L">>)) @@
    ("CI_JOB_URL" :> Opt(u, "num", <<"x", "0", "L">>)) @@
    ("CI_PIPELINE_SOURCE" :> Opt(u, "server", <<"x", "1", "L">>)) @@
    ("JOB_NAME" :> Opt(u, "project", <<"x", "2", "J">>)) @@
    ("NODE_NAME" :> Opt(u, "id", <<"x", "3", "J">>)) @@
    ("EXECUTOR_NUMBER" :> Opt(u, "num", <<"x", "4", "J">>)) @@
    ("CIRCLE_WORKFLOW_JOB_ID" :> Opt(u, "server", <<"x", "5", "C">>)) @@
    ("CIRCLE_JOB" :> Opt(u, "project", <<"x", "6", "C">>)) @@
    ("CIRCLE_NODE_INDEX" :> Opt(u, "id", <<"x", "7", "C">>)) @@
    ("BITBUCKET_STEP_UUID" :> Opt(u, "num", <<"x", "8", "B">>)) @@
    ("BITBUCKET_WORKSPACE" :> Opt(u, "server", <<"x", "9", "B">>)) @@
    ("BUILD_DEFINITIONNAME" :> Opt(u, "project", <<"x", "0", "Z">>)) @@
    ("AGENT_NAME" :> Opt(u, "id", <<"x", "1", "Z">>)) @@
    ("SYSTEM_TEAMPROJECT" :> Opt(u, "num", <<"x", "2", "Z">>)) @@
    ("TRAVIS_JOB_ID" :> Opt(u, "server", <<"x", "3", "T">>)) @@
    ("TRAVIS_JOB_NUMBER" :> Opt(u, "project", <<"x", "4", "T">>)) @@
    ("TRAVIS_EVENT_TYPE" :> Opt(u, "id", <<"x", "5", "T">>)) @@
    ("RD_JOB_GROUP" :> Opt(u, "num", <<"x", "6", "K">>)) @@
    ("RD_JOB_URL" :> Opt(u, "server", <<"x", "7", "K">>))

MarkerEnv(M, W) ==
    [name \in { MarkerVar(sys) : sys \in M \cup W } |->
        LET sys == CHOOSE x \in M \cup W : MarkerVar(x) = name
        IN  IF sys \in M THEN MarkerOn(sys) ELSE MarkerOff(sys)]

MarkerSets == { X \in SUBSET SystemSet : Cardinality(X) <= MaxMarkers }
NonMatchingSets == { X \in SUBSET FlagSystems : Cardinality(X) <= 1 }

DetectInit ==
    /\ \E M \in MarkerSets, W \in NonMatchingSets :
          \E p \in RepoProfiles, s \in ShaProfiles, u \in SUBSET OptionalParts :
              env = MarkerEnv(M, W) @@ DataEnv(p, s, u) @@ MetadataEnv(u)
    /\ detected = NotCalled
    /\ autoMetadata = NotCalled
    /\ ClientIdle /\ NormIdle /\ CmdIdle /\ MetaIdle /\ AnnotateIdle

\* The program calls cicd.Detect(); a panic ends the process.
CallDetect ==
    /\ ~detected.called
    /\ detected' = Detect(env)
    /\ UNCHANGED <<env, autoMetadata>>
    /\ UNCHANGED <<clientVars, normVars, cmdVars, metaVars, annotateVars>>

\* The program calls detected.ExtraMetadata() on the values Detect returned.
CallExtraMetadata ==
    /\ detected.called /\ ~detected.panicked
    /\ ~autoMetadata.called
    /\ autoMetadata' = [called |-> TRUE, v |-> ExtraMetadata(env, detected.v)]
    /\ UNCHANGED <<env, detected>>
    /\ UNCHANGED <<clientVars, normVars, cmdVars, metaVars, annotateVars>>

DetectNext ==
    \/ CallDetect
    \/ CallExtraMetadata

DetectSpec == DetectInit /\ [][DetectNext]_vars

----------------------------------------------------------------------------
(* The track commands (package cmd)                                        *)

\* const MaxMetadataSize = 100 * 1024
MaxMetadataSize == 100 * 1024

\* The text of an --extra-metadata value: its length in bytes, white space
\* around the value included, and the JSON value it spells: an object with
\* its members, an array, a scalar (string, number, true, false), null, or
\* no JSON value at all (malformed or blank text).  Only the empty string
\* has length 0.
EmptyText == [size |-> 0, json |-> [kind |-> "malformed"]]
ObjectText(kv, size) == [size |-> size, json |-> [kind |-> "object", kv |-> kv]]
OtherText(k, size) == [size |-> size, json |-> [kind |-> k]]

\* json.Unmarshal([]byte(jsonStr), &metadata) for a nil
\* map[string]interface{}: an object is decoded into a new map, null leaves
\* the map nil without an error, anything else is an error.
UnmarshalNullAsEmptyObject(jsonStr) ==
    CASE jsonStr.json.kind = "object" ->
            [err |-> FALSE, metadata |-> [nil |-> FALSE, kv |-> jsonStr.json.kv]]
      [] jsonStr.json.kind = "null" -> [err |-> FALSE, metadata |-> MakeMap]
      [] OTHER -> [err |-> TRUE, metadata |-> NilMap]
Unmarshal(jsonStr) ==
    CASE jsonStr.json.kind = "object" ->
            [err |-> FALSE, metadata |-> [nil |-> FALSE, kv |-> jsonStr.json.kv]]
      [] jsonStr.json.kind = "null" -> [err |-> FALSE, metadata |-> NilMap]
      [] OTHER -> [err |-> TRUE, metadata |-> NilMap]

\* func ParseExtraMetadata(jsonStr string) (map[string]interface{}, error)
ParseExtraMetadataSizeCheckLast(jsonStr) ==
    IF jsonStr.size = 0 THEN [metadata |-> NilMap, err |-> NoErr]
    ELSE LET r == Unmarshal(jsonStr)
         IN  IF r.err
             THEN [metadata |-> NilMap,
                   err |-> PlainError("invalid JSON for extra_metadata", NoAttempt)]
             ELSE IF r.metadata.nil
             THEN [metadata |-> NilMap,
                   err |-> PlainError("extra_metadata must be a JSON object, not null", NoAttempt)]
             ELSE IF jsonStr.size > MaxMetadataSize
             THEN [metadata |-> NilMap,
                   err |-> PlainError("extra_metadata exceeds maximum size", NoAttempt)]
             ELSE [metadata |-> r.metadata, err |-> NoErr]
ParseExtraMetadata(jsonStr) ==
    IF jsonStr.size = 0 THEN [metadata |-> NilMap, err |-> NoErr]
    ELSE IF jsonStr.size > MaxMetadataSize
    THEN [metadata |-> NilMap,
          err |-> PlainError("extra_metadata exceeds maximum size", NoAttempt)]
    ELSE LET r == Unmarshal(jsonStr)
         IN  IF r.err
             THEN [metadata |-> NilMap,
                   err |-> PlainError("invalid JSON for extra_metadata", NoAttempt)]
             ELSE IF r.metadata.nil
             THEN [metadata |-> NilMap,
                   err |-> PlainError("extra_metadata must be a JSON object, not null", NoAttempt)]
             ELSE [metadata |-> r.metadata, err |-> NoErr]

\* `for k, v := range src { merged[k] = v }`
RECURSIVE CopyEntries(_, _, _)
CopyEntries(dst, src, keys) ==
    IF keys = {} THEN dst
    ELSE LET k == CHOOSE x \in keys : TRUE
         IN  CopyEntries(MapPut(dst, k, src.kv[k]), src, keys \ {k})

\* "Merge: start with auto-detected, then overlay user-provided"
OverlayAutoLast(autoDetected, userProvided) ==
    CopyEntries(CopyEntries(MakeMap, userProvided, DOMAIN userProvided.kv),
                autoDetected, DOMAIN autoDetected.kv)
Overlay(autoDetected, userProvided) ==
    CopyEntries(CopyEntries(MakeMap, autoDetected, DOMAIN autoDetected.kv),
                userProvided, DOMAIN userProvided.kv)

\* func MergeMetadata(autoDetected, userProvided map[string]interface{}):
\* the map returned and which map it is, one of the arguments or a new one.
MergeMetadataAlwaysCopies(autoDetected, userProvided) ==
    [is |-> "merged", m |-> Overlay(autoDetected, userProvided)]
MergeMetadata(autoDetected, userProvided) ==
    IF MapLen(autoDetected) = 0
    THEN [is |-> "userProvided", m |-> userProvided]
    ELSE IF MapLen(userProvided) = 0
    THEN [is |-> "autoDetected", m |-> autoDetected]
    ELSE [is |-> "merged", m |-> Overlay(autoDetected, userProvided)]

\* flag, then viper (environment variable or config file), then the
\* auto-detected value
getWithFallbackDetectedFirst(flag, viperValue, fallback) ==
    IF fallback # <<>> THEN fallback
    ELSE IF flag # <<>> THEN flag
    ELSE viperValue
getWithFallback(flag, viperValue, fallback) ==
    IF flag # <<>> THEN flag
    ELSE IF viperValue # <<>> THEN viperValue
    ELSE fallback

\* string(detected.System)
SystemString(sys) ==
    CASE sys = "github" -> <<"g", "i", "t", "h", "u", "b">>
      [] sys = "gitlab" -> <<"g", "i", "t", "l", "a", "b">>
      [] sys = "jenkins" -> <<"j", "e", "n", "k", "i", "n", "s">>
      [] sys = "circleci" -> <<"c", "i", "r", "c", "l", "e", "c", "i">>
      [] sys = "bitbucket" -> <<"b", "i", "t", "b", "u", "c", "k", "e", "t">>
      [] sys = "azure-devops" -> <<"a", "z", "u", "r", "e", "-", "d", "e", "v", "o", "p", "s">>
      [] sys = "travis" -> <<"t", "r", "a", "v", "i", "s">>
      [] sys = "rundeck" -> <<"r", "u", "n", "d", "e", "c", "k">>
      [] sys = "unknown" -> <<"u", "n", "k", "n", "o", "w", "n">>

\* The optional fields of the event, each from its flag, then viper, then
\* the detected value: &api.BuildEventCreate{...} and
\* &api.DeploymentEventCreate{...}.
BuildEventFields(o, d) ==
    [SourceSystem |-> getWithFallback(o[1], o[2], SystemString(d.System)),
     BuildNumber |-> getWithFallback(o[1], o[2], d.BuildNumber),
     SCMSha |-> getWithFallback(o[1], o[2], d.SCMSha),
     SCMBranch |-> getWithFallback(o[1], o[2], d.SCMBranch),
     SCMRepository |-> getWithFallback(o[1], o[2], d.SCMRepository),
     BuildURL |-> getWithFallback(o[1], o[2], d.BuildURL),
     InvokeID |-> getWithFallback(o[1], o[2], d.InvokeID),
     BuiltBy |-> getWithFallback(o[1], o[2], d.BuiltBy),
     BuiltByEmail |-> getWithFallback(o[1], o[2], d.BuiltByEmail),
     BuiltByName |-> getWithFallback(o[1], o[2], d.BuiltByName)]
DeploymentEventFields(o, d) ==
    [SourceSystem |-> getWithFallback(o[1], o[2], SystemString(d.System)),
     BuildNumber |-> getWithFallback(o[1], o[2], d.BuildNumber),
     SCMSha |-> getWithFallback(o[1], o[2], d.SCMSha),
     SCMRepository |-> getWithFallback(o[1], o[2], d.SCMRepository),
     DeployURL |-> getWithFallback(o[1], o[2], d.BuildURL),
     InvokeID |-> getWithFallback(o[1], o[2], d.InvokeID),
     DeployedBy |-> getWithFallback(o[1], o[2], d.BuiltBy),
     DeployedByEmail |-> getWithFallback(o[1], o[2], d.BuiltByEmail),
     DeployedByName |-> getWithFallback(o[1], o[2], d.BuiltByName)]

\* "Validate required fields" and the API key check: the error returned, or
\* NoErr.
ValidationErrorNoAPIKeyCheck(k, product, environment, version, apiKey) ==
    IF product = <<>> THEN PlainError("--product is required", NoAttempt)
    ELSE IF k = "deployment" /\ environment = <<>>
    THEN PlainError("--environment is required", NoAttempt)
    ELSE IF version = <<>> THEN PlainError("--version is required", NoAttempt)
    ELSE NoErr
ValidationError(k, product, environment, version, apiKey) ==
    IF product = <<>> THEN PlainError("--product is required", NoAttempt)
    ELSE IF k = "deployment" /\ environment = <<>>
    THEN PlainError("--environment is required", NoAttempt)
    ELSE IF version = <<>> THEN PlainError("--version is required", NoAttempt)
    ELSE IF apiKey = <<>> THEN PlainError("API key is required", NoAttempt)
    ELSE NoErr

\* `Status: statusValue`: the event carries the --status value as given;
\* the result of status.Normalize is only used for the verbose message.
EventStatusNormalized(statusValue) == Normalize(statusValue).canonical
EventStatus(statusValue) == statusValue

\* time.Parse(time.RFC3339, completedAtStr)
CompletedAtError(completedAt) ==
    IF completedAt = "invalid"
    THEN PlainError("invalid completed-at timestamp", NoAttempt)
    ELSE NoErr

\* The exit code after Create*Event has returned err.
ExitCodeOfNoPreflight(k, err) ==
    IF err = NoErr THEN 0
    ELSE IF k = "build" THEN 2
    ELSE IF err.type = "APIError" THEN 4
    ELSE 1
ExitCodeOf(k, err) ==
    IF err = NoErr THEN 0
    ELSE IF k = "build" THEN 2
    ELSE IF err.type = "APIError"
    THEN IF IsPreflightError(err) THEN 5 ELSE 4
    ELSE 1

\* main: `if err := cmd.Execute(); err != nil { os.Exit(1) }`
ExitCodeOfReturnedError == 1
\* the Go runtime ends a panicking process with status 2
ExitCodeOfPanic == 2

\* The extra_metadata of the event: runDeploymentTrack merges the
\* auto-detected metadata with the user's, runBuildTrack takes the user's
\* document alone.
EventMetadata(k, auto, user) ==
    IF k = "deployment" THEN MergeMetadata(auto, user).m ELSE user

\* Inputs of one run of a track command.
ValueSources == { <<<<"f">>, <<"v">>>>, <<<<>>, <<"v">>>>, <<<<>>, <<>>>> }
StatusFlags == { <<"s", "u", "c", "c", "e", "s", "s">>, <<" ", "S", "U", "C", "C", "E", "S", "S", " ">>, <<"s", "t", "a", "r", "t", "e", "d">>, <<"b", "o", "g", "u", "s">> }
APIKeys == { <<>>, <<"k", "e", "y">> }
CompletedAtFlags == {"", "invalid"}
ExtraMetadataFlags ==
    { EmptyText,
      ObjectText(("team" :> <<"c", "o", "r", "e">>) @@ ("vi_gh_job" :> <<"m", "i", "n", "e">>), 40),
      OtherText("malformed", 40),
      ObjectText(("team" :> <<"c", "o", "r", "e">>), MaxMetadataSize + 1) }
CmdEnvironments ==
    { MarkerEnv({}, {}) @@ DataEnv(2, "full", OptionalParts)
          @@ MetadataEnv(OptionalParts),
      MarkerEnv({"github"}, {}) @@ DataEnv(2, "full", OptionalParts)
          @@ MetadataEnv(OptionalParts),
      MarkerEnv({"github"}, {}) @@ DataEnv(2, "short", OptionalParts)
          @@ MetadataEnv(OptionalParts) }
CmdStatusCodes == {201, 401, 409, 500}
CmdBodyShapes == {"result_json", "not_json"}
CmdTransportErrors == {"timeout"}

CmdInit ==
    /\ kind \in {"build", "deployment"}
    /\ FailOnAPIError \in BOOLEAN
    /\ requestOK \in BOOLEAN
    /\ pc = "cmd"
    /\ attempt = 0
    /\ lastErr = NoAttempt
    /\ sleeps = <<>>
    /\ sent = 0
    /\ inflight = 0
    /\ attempts = <<>>
    /\ resp = NoResp
    /\ doErr = NoErr
    /\ retErr = NoErr
    /\ retResult = NoResult
    /\ env \in CmdEnvironments
    /\ detected = NotCalled
    /\ autoMetadata = NotCalled
    /\ flags \in [product : ValueSources, version : ValueSources,
                  environment : ValueSources, optional : ValueSources,
                  status : StatusFlags,
                  apiKey : APIKeys, extraMetadata : ExtraMetadataFlags,
                  completedAt : CompletedAtFlags]
    \* `track build` has no --environment flag
    /\ kind = "build" => flags.environment = << <<>>, <<>> >>
    /\ event = NotCalled
    /\ cmdErr = NoErr
    /\ exitCode = -1
    /\ NormIdle /\ MetaIdle /\ AnnotateIdle

\* runBuildTrack / runDeploymentTrack up to the call of Create*Event:
\* detect, resolve, validate, build the event; every error is returned to
\* main before the client is used.
RunTrack ==
    /\ pc = "cmd"
    /\ detected' = Detect(env)
    /\ IF detected'.panicked
       THEN /\ pc' = "exited"
            /\ exitCode' = ExitCodeOfPanic
            /\ UNCHANGED <<event, cmdErr, autoMetadata>>
       ELSE LET d == detected'.v
                product == getWithFallback(flags.product[1], flags.product[2],
                                           d.Product)
                environment == getWithFallback(flags.environment[1],
                                               flags.environment[2], <<>>)
                version == getWithFallback(flags.version[1], flags.version[2],
                                           d.Version)
                verr == ValidationError(kind, product, environment, version,
                                        flags.apiKey)
                terr == CompletedAtError(flags.completedAt)
                auto == ExtraMetadata(env, d)
                user == ParseExtraMetadata(flags.extraMetadata)
                err == IF verr # NoErr THEN verr
                       ELSE IF terr # NoErr THEN terr
                       ELSE user.err
            IN  /\ IF kind = "deployment" /\ verr = NoErr /\ terr = NoErr
                   THEN autoMetadata' = [called |-> TRUE, v |-> auto]
                   ELSE UNCHANGED autoMetadata
                /\ IF err # NoErr
                   THEN /\ cmdErr' = err
                        /\ pc' = "exited"
                        /\ exitCode' = ExitCodeOfReturnedError
                        /\ UNCHANGED event
                   ELSE /\ event' = [called |-> TRUE,
                                     ProductName |-> product,
                                     Version |-> version,
                                     EnvironmentName |-> IF kind = "deployment"
                                                         THEN environment ELSE <<>>,
                                     Status |-> EventStatus(flags.status),
                                     ExtraMetadata |->
                                         EventMetadata(kind, auto, user.metadata),
                                     fields |->
                                         IF kind = "build"
                                         THEN BuildEventFields(flags.optional, d)
                                         ELSE DeploymentEventFields(flags.optional, d)]
                        /\ pc' = "loop"
                        /\ UNCHANGED <<cmdErr, exitCode>>
    /\ UNCHANGED <<kind, FailOnAPIError, requestOK, attempt, lastErr, sleeps,
                   sent, inflight, attempts, resp, doErr, retErr, retResult>>
    /\ UNCHANGED <<normVars, env, flags, metaVars, annotateVars>>

\* runBuildTrack / runDeploymentTrack after Create*Event has returned.
ExitTrack ==
    /\ pc = "done"
    /\ event.called
    /\ exitCode' = ExitCodeOf(kind, retErr)
    /\ pc' = "exited"
    /\ UNCHANGED <<kind, FailOnAPIError, requestOK, attempt, lastErr, sleeps,
                   sent, inflight, attempts, resp, doErr, retErr, retResult>>
    /\ UNCHANGED <<normVars, detectVars, flags, event, cmdErr, metaVars,
                   annotateVars>>

CmdNext ==
    \/ RunTrack
    \/ BeginAttempt
    \/ PerformLocalError
    \/ PerformSend
    \/ \E e \in CmdTransportErrors : TransportFailure(e)
    \/ \E code \in CmdStatusCodes, body \in CmdBodyShapes :
          ResponseArrives(code, body)
    \/ Exhausted
    \/ CreateEvent
    \/ ExitTrack

CmdSpec == CmdInit /\ [][CmdNext]_vars

----------------------------------------------------------------------------
(* The metadata reconciler on its own: one call of ParseExtraMetadata and, *)
(* when it accepts the text, one call of MergeMetadata with its result.    *)

\* Maps of at most MaxEntries entries over a few keys and values.
MaxEntries == 2
MetadataMaps ==
    UNION { [D -> { <<"1">>, <<"2">>, <<"3">> }] :
              D \in { X \in SUBSET {"a", "b", "x"} : Cardinality(X) <= MaxEntries } }
\* A non-empty text is short, at the limit, just over it, or 150 KiB long.
MetadataTexts ==
    LET sizes == {40, MaxMetadataSize, MaxMetadataSize + 1, 150 * 1024}
    IN  {EmptyText}
        \cup { ObjectText(kv, n) : kv \in MetadataMaps, n \in sizes }
        \cup { OtherText(k, n) : k \in {"array", "scalar", "null", "malformed"},
                                 n \in sizes }

MetaInit ==
    /\ extraMetadataStr \in MetadataTexts
    /\ userMetadata = NotCalled
    /\ autoArg \in {NilMap} \cup { [nil |-> FALSE, kv |-> f] : f \in MetadataMaps }
    /\ merged = NotCalled
    /\ ClientIdle /\ NormIdle /\ DetectIdle /\ CmdIdle /\ AnnotateIdle

CallParseExtraMetadata ==
    /\ ~userMetadata.called
    /\ userMetadata' =
           [called |-> TRUE,
            metadata |-> ParseExtraMetadata(extraMetadataStr).metadata,
            err |-> ParseExtraMetadata(extraMetadataStr).err]
    /\ UNCHANGED <<extraMetadataStr, autoArg, merged>>
    /\ UNCHANGED <<clientVars, normVars, detectVars, cmdVars, annotateVars>>

CallMergeMetadata ==
    /\ userMetadata.called /\ userMetadata.err = NoErr
    /\ ~merged.called
    /\ merged' =
           [called |-> TRUE,
            is |-> MergeMetadata(autoArg, userMetadata.metadata).is,
            m |-> MergeMetadata(autoArg, userMetadata.metadata).m]
    /\ UNCHANGED <<extraMetadataStr, userMetadata, autoArg>>
    /\ UNCHANGED <<clientVars, normVars, detectVars, cmdVars, annotateVars>>

MetaNext ==
    \/ CallParseExtraMetadata
    \/ CallMergeMetadata

MetaSpec == MetaInit /\ [][MetaNext]_vars

----------------------------------------------------------------------------
(* The GitHub Actions error annotation (package github)                    *)

\* func replaceAll(s, old, new string) string: the scan from position i on
RECURSIVE replaceAllFrom(_, _, _, _)
replaceAllFrom(s, old, new, i) ==
    IF i > Len(s) THEN <<>>
    ELSE IF i + Len(old) - 1 <= Len(s) /\ SubSeq(s, i, i + Len(old) - 1) = old
    THEN new \o replaceAllFrom(s, old, new, i + Len(old))
    ELSE <<s[i]>> \o replaceAllFrom(s, old, new, i + 1)
replaceAll(s, old, new) == replaceAllFrom(s, old, new, 1)

\* func escapeWorkflowCommand(s string) string
escapeWorkflowCommand(s) ==
    LET s1 == replaceAll(s, <<"%">>, <<"%", "2", "5">>)
        s2 == replaceAll(s1, <<"\r">>, <<"%", "0", "D">>)
    IN  replaceAll(s2, <<"\n">>, <<"%", "0", "A">>)

\* func formatTitle(statusCode int, errorCode, ruleName string) string
formatTitle(statusCode, errorCode, ruleName) ==
    CASE statusCode = 409 -> <<"D", "e", "p", "l", "o", "y", "m", "e", "n", "t", " ", "C", "o", "n", "f", "l", "i", "c", "t">>
      [] statusCode = 423 ->
            IF ruleName # <<>>
            THEN <<"D", "e", "p", "l", "o", "y", "m", "e", "n", "t", " ", "B", "l", "o", "c", "k", "e", "d", ":", " ">> \o ruleName
            ELSE <<"D", "e", "p", "l", "o", "y", "m", "e", "n", "t", " ", "B", "l", "o", "c", "k", "e", "d", " ", "b", "y", " ", "S", "c", "h", "e", "d", "u", "l", "e">>
      [] statusCode = 428 ->
            IF ruleName # <<>>
            THEN errorCode \o <<":", " ">> \o ruleName
            ELSE errorCode
      [] OTHER -> <<"D", "e", "p", "l", "o", "y", "m", "e", "n", "t", " ", "R", "e", "j", "e", "c", "t", "e", "d">>

\* func writeWorkflowCommand(statusCode int, errorCode, message, ruleName
\* string): what fmt.Fprintf(os.Stdout, "::error title=%s::%s\n", ...) prints
writeWorkflowCommand(statusCode, errorCode, message, ruleName) ==
    <<":", ":", "e", "r", "r", "o", "r", " ", "t", "i", "t", "l", "e", "=">>
    \o formatTitle(statusCode, errorCode, ruleName)
    \o <<":", ":">> \o escapeWorkflowCommand(message) \o <<"\n">>

\* Rejections as the server describes them: the strings are at most
\* MaxTextLen characters over a few ASCII characters, among them the ones a
\* workflow command gives a meaning to.
MaxTextLen == 2
MessageChars == {"a", "%", ":", "\r", "\n"}
NameChars == {"r", "\r", "\n"}
Strings(A, n) == UNION { [1..k -> A] : k \in 0..n }

AnnotateInit ==
    /\ \E code \in {409, 423, 428},
          errorCode \in { <<>>, <<"E">>, <<"E", "\n">> } :
       \E message \in Strings(MessageChars, MaxTextLen),
          ruleName \in Strings(NameChars, MaxTextLen) :
          rejection = [statusCode |-> code, errorCode |-> errorCode,
                       message |-> message, ruleName |-> ruleName]
    /\ stdout = NotCalled
    /\ ClientIdle /\ NormIdle /\ DetectIdle /\ CmdIdle /\ MetaIdle

\* WriteErrorAnnotation in GitHub Actions: writeWorkflowCommand prints the
\* annotation.
CallWriteWorkflowCommand ==
    /\ ~stdout.called
    /\ stdout' = [called |-> TRUE,
                  line |-> writeWorkflowCommand(rejection.statusCode,
                                                rejection.errorCode,
                                                rejection.message,
                                                rejection.ruleName)]
    /\ UNCHANGED rejection
    /\ UNCHANGED <<clientVars, normVars, detectVars, cmdVars, metaVars>>

AnnotateNext == CallWriteWorkflowCommand

AnnotateSpec == AnnotateInit /\ [][AnnotateNext]_vars

----------------------------------------------------------------------------
(* Vocabulary of the properties.  These classes are written out from the   *)
(* statements being checked, independently of the operators above.         *)

Finished == pc = "done"
LoopEnded == pc \in {"create", "done"}
NumAttempts == Len(attempts)
Last == IF Len(attempts) >= 1 THEN attempts[Len(attempts)] ELSE NoAttempt

Is2xx(a) == a.t = "resp" /\ a.code >= 200 /\ a.code <= 299
IsPolicyRejection(a) == a.t = "resp" /\ a.code \in {409, 423, 428}
Is4xxNot429(a) == a.t = "resp" /\ a.code >= 400 /\ a.code <= 499 /\ a.code # 429
IsRetryableFailure(a) ==
    \/ a.t \in {"conn", "timeout"}
    \/ a.t = "resp" /\ ((a.code >= 500 /\ a.code <= 599) \/ a.code = 429)
AllRetryable ==
    Len(attempts) = 4 /\ \A i \in 1..4 : IsRetryableFailure(attempts[i])

\* The body of the returned response was received in full.
BodyRead == resp.Body # "unreadable"
\* ... and is a JSON object.
BodyDecodes == resp.Body \notin {"unreadable", "not_json"}

\* The caller is told the event was recorded.
Recorded == retErr = NoErr /\ retResult # NoResult /\ retResult.Status # "not_recorded"
\* The caller gets the soft-fail placeholder.
IsPlaceholder ==
    /\ retErr = NoErr
    /\ retResult.Status = "not_recorded"
    /\ retResult.ID = "" /\ retResult.ProductID = "" /\ retResult.VersionID = ""
    /\ (kind = "deployment" => retResult.EnvironmentID = "")
ReturnsError == retErr # NoErr /\ retResult = NoResult

Schedule == <<1, 2, 4>>

----------------------------------------------------------------------------
C3_BoundedSequentialBackoff ==
    /\ sent <= 4
    /\ Len(attempts) <= 4
    /\ inflight <= 1
    /\ (inflight = 1) <=> (pc = "wait")
    /\ Len(sleeps) <= 3
    /\ sleeps = SubSeq(Schedule, 1, Len(sleeps))
    /\ pc \in {"perform", "wait"} => Len(sleeps) = Len(attempts)
    /\ pc = "loop" => Len(sleeps) = (IF Len(attempts) = 0 THEN 0 ELSE Len(attempts) - 1)
    /\ LoopEnded => Len(sleeps) = Len(attempts) - 1
    /\ requestOK => sent = Len(attempts) + inflight

C3_Witness ==
    /\ pc = "wait"
    /\ sent = 4
    /\ inflight = 1
    /\ Len(attempts) = 3
    /\ sleeps = <<1, 2, 4>>

\* C4: a 4xx response other than 429 ends the retry loop at once: it is
\* the last attempt, no backoff follows it, and doRequest hands it (with a
\* nil error) to handleResponse, which classifies it as an APIError with
\* that status.  [404] is 1 attempt, [500, 404] is 2.
C4_ClientErrorNotRetried ==
    /\ \A i \in 1..Len(attempts) :
          Is4xxNot429(attempts[i]) =>
              /\ i = Len(attempts)
              /\ LoopEnded
              /\ sent = i
              /\ Len(sleeps) = i - 1
              /\ resp.StatusCode = attempts[i].code
              /\ doErr = NoErr
    /\ (Finished /\ Is4xxNot429(Last) /\ BodyRead /\ retErr # NoErr) =>
          (retErr.type = "APIError" /\ retErr.StatusCode = Last.code)

C4_Witness ==
    /\ Finished
    /\ attempts = <<AttemptResp(500), AttemptResp(404)>>
    /\ sent = 2
    /\ sleeps = <<1>>

\* C5: the loop never ends on a transport failure, a 5xx or a 429 while
\* fewer than 4 attempts have been made: it goes on to the next attempt.
\* Responses [500, 500, 200] are exactly 3 attempts with backoffs 1s, 2s
\* and (for a body that decodes) a recorded outcome.
C5_RetryableFailureRetried ==
    /\ (LoopEnded /\ IsRetryableFailure(Last)) => Len(attempts) = 4
    /\ (pc = "loop" /\ Len(attempts) \in 1..3 /\ IsRetryableFailure(Last)) =>
          (attempt = Len(attempts) /\ ENABLED BeginAttempt /\ ~ENABLED Exhausted)
    /\ (/\ Finished
        /\ attempts = <<AttemptResp(500), AttemptResp(500), AttemptResp(200)>>) =>
          /\ sent = 3
          /\ sleeps = <<1, 2>>
          /\ BodyDecodes => Recorded

C5_Witness ==
    /\ Finished
    /\ attempts = <<AttemptResp(500), AttemptResp(500), AttemptResp(200)>>
    /\ sleeps = <<1, 2>>
    /\ Recorded

\* C6 as stated: a 2xx response always gives a success outcome with a nil
\* error, whatever the body that was read contains.
C6_AnyBodyIsSuccess ==
    (Finished /\ Is2xx(Last) /\ BodyRead) => Recorded

\* C6, amended: a 2xx response ends the loop at once (it is the last
\* attempt, nothing is slept after it, doRequest returns it with a nil
\* error); the call returns the decoded result and a nil error when the
\* body is a JSON object, and when the body is not valid JSON the outcome
\* is not a recorded one: handleResponse fails with "failed to parse
\* response".
C6_SuccessEndsLoop ==
    /\ \A i \in 1..Len(attempts) :
          Is2xx(attempts[i]) =>
              /\ i = Len(attempts)
              /\ LoopEnded
              /\ sent = i
              /\ Len(sleeps) = i - 1
              /\ resp.StatusCode = attempts[i].code
              /\ doErr = NoErr
    /\ (Finished /\ Is2xx(Last) /\ BodyDecodes) => Recorded
    /\ (Finished /\ Is2xx(Last) /\ resp.Body = "not_json") =>
          /\ ~Recorded
          /\ FailOnAPIError =>
                (retErr.type = "failed to parse response" /\ retResult = NoResult)

C6_Witness ==
    /\ Finished
    /\ attempts = <<AttemptResp(200)>>
    /\ resp.Body = "not_json"
    /\ FailOnAPIError
    /\ retErr.type = "failed to parse response"

\* C7: when every attempt ends in a retryable failure (transport failure,
\* 5xx, 429) the loop ends after exactly 4 attempts, the outcome is never a
\* recorded one, and the error doRequest returns wraps the failure of the
\* 4th attempt, not an earlier one.
C7_ExhaustionSurfacesLastFailure ==
    /\ (/\ LoopEnded
        /\ \A i \in 1..Len(attempts) : IsRetryableFailure(attempts[i])) =>
          /\ Len(attempts) = 4
          /\ sent = 4
          /\ resp = NoResp
          /\ doErr.type = "request failed after 3 retries"
          /\ doErr.cause = attempts[4]
    /\ (Finished /\ AllRetryable) =>
          /\ ~Recorded
          /\ retErr # NoErr => retErr = doErr

C7_Witness ==
    /\ Finished
    /\ attempts = <<AttemptResp(500), AttemptResp(429), AttemptErr("conn"), AttemptResp(503)>>
    /\ FailOnAPIError
    /\ retErr.cause = AttemptResp(503)

C9_DeadlineIsTerminal ==
    \A i \in 1..Len(attempts) :
        attempts[i].t = "timeout" =>
            /\ i = Len(attempts)
            /\ Len(sleeps) <= i - 1
            /\ pc \notin {"perform", "wait"}

\* C9, amended: an attempt that fails because the request deadline is
\* exceeded is treated like any other transport failure: while fewer than
\* 4 attempts have been made the loop sleeps the next backoff and tries
\* again; it ends the call only as the 4th attempt, wrapped in "request
\* failed after 3 retries".
C9_DeadlineIsRetried ==
    /\ (LoopEnded /\ Last.t = "timeout") =>
          /\ Len(attempts) = 4
          /\ doErr.type = "request failed after 3 retries"
          /\ doErr.cause = AttemptErr("timeout")
    /\ (pc = "loop" /\ Len(attempts) \in 1..3 /\ Last.t = "timeout") =>
          (ENABLED BeginAttempt /\ ~ENABLED Exhausted)
    /\ \A i \in 1..Len(attempts) :
          (attempts[i].t = "timeout" /\ i < Len(attempts)) =>
              (Len(sleeps) >= i /\ sleeps[i] = Schedule[i])

C9_Witness ==
    /\ Finished
    /\ attempts = <<AttemptErr("timeout"), AttemptResp(200)>>
    /\ sleeps = <<1>>
    /\ sent = 2
    /\ Recorded

\* C10: the outcome depends on the final attempt only.  Nothing is returned
\* before the call ends; a response that ends the loop is returned with a
\* nil error whatever failed before it; the returned error names the status
\* or the failure of the final attempt, never that of an earlier one
\* ([500, 404] gives the 404 APIError, [transport failure, 200] gives the
\* recorded result).
C10_FinalAttemptDecides ==
    /\ ~Finished => (retErr = NoErr /\ retResult = NoResult)
    /\ (LoopEnded /\ (Is2xx(Last) \/ Is4xxNot429(Last))) =>
          (doErr = NoErr /\ resp.StatusCode = Last.code)
    /\ Finished =>
          /\ retErr.StatusCode \in {0, Last.code}
          /\ retErr.cause \in {NoAttempt, Last}
    /\ (Finished /\ Is4xxNot429(Last) /\ BodyRead /\ retErr # NoErr) =>
          (retErr.type = "APIError" /\ retErr.StatusCode = Last.code)
    /\ (Finished /\ Is2xx(Last) /\ BodyDecodes) => Recorded

C10_Witness ==
    /\ Finished
    /\ attempts = <<AttemptResp(500), AttemptResp(404)>>
    /\ FailOnAPIError
    /\ retErr.type = "APIError" /\ retErr.StatusCode = 404

----------------------------------------------------------------------------
(* Properties of the status normalizer                                     *)

\* The input with surrounding white space removed and in lower case.
Cleaned == ToLower(TrimSpace(status))
CanonicalStatuses == {Pending, Started, Completed, Failed, Aborted}
Recognized == Cleaned \in DOMAIN statusAliases
IsCanonicalVariant == Cleaned \in CanonicalStatuses
IsAliasVariant == Recognized /\ ~IsCanonicalVariant

\* C15: Normalize is idempotent on its own output.  For a canonical value or
\* an alias in any casing and with any surrounding white space it returns
\* one of the five canonical values c, and Normalize(c) = (c, false);
\* wasNormalized is false for the variants of a canonical value and true for
\* every alias.
C15_NormalizeIdempotent ==
    /\ renormalized.called =>
          /\ renormalized.canonical = normalized.canonical
          /\ ~renormalized.wasNormalized
    /\ (normalized.called /\ Recognized) =>
          /\ normalized.canonical \in CanonicalStatuses
          /\ normalized.valid
          /\ IsCanonicalVariant =>
                (normalized.canonical = Cleaned /\ ~normalized.wasNormalized)
          /\ IsAliasVariant => normalized.wasNormalized
C15_Witness ==
    /\ renormalized.called
    /\ IsCanonicalVariant
    /\ status # Cleaned
    /\ Len(status) > Len(Cleaned)

\* C16: for an input that, trimmed and lower-cased, is not in the table,
\* Normalize returns the original input unmodified with wasNormalized false
\* and IsValid returns false; both calls return a result.
C16_UnknownPassedThrough ==
    (normalized.called /\ ~Recognized) =>
        /\ normalized.canonical = status
        /\ normalized.wasNormalized = FALSE
        /\ normalized.valid = FALSE
C16_Witness ==
    /\ normalized.called
    /\ ~Recognized
    /\ status # Cleaned
    /\ Cleaned # <<>>

----------------------------------------------------------------------------
(* Properties of error responses outside the envelope                      *)

\* The call ended on a 409 / 423 / 428 response whose body was read and is
\* not an envelope with an object-valued detail.
NonEnvelopeRejection ==
    /\ Finished
    /\ IsPolicyRejection(Last)
    /\ BodyRead
    /\ resp.Body # "detail_object"

----------------------------------------------------------------------------
(* Properties of the environment detector                                  *)

\* The marker of each system, as the contract lists them.
MarkerPresent(sys) ==
    CASE sys = "github"       -> Getenv(env, "GITHUB_ACTIONS") = <<"t", "r", "u", "e">>
      [] sys = "gitlab"       -> Getenv(env, "GITLAB_CI") = <<"t", "r", "u", "e">>
      [] sys = "jenkins"      -> Getenv(env, "JENKINS_URL") # <<>>
      [] sys = "circleci"     -> Getenv(env, "CIRCLECI") = <<"t", "r", "u", "e">>
      [] sys = "bitbucket"    -> Getenv(env, "BITBUCKET_BUILD_NUMBER") # <<>>
      [] sys = "azure-devops" -> Getenv(env, "TF_BUILD") = <<"T", "r", "u", "e">>
      [] sys = "travis"       -> Getenv(env, "TRAVIS") = <<"t", "r", "u", "e">>
      [] sys = "rundeck"      -> Getenv(env, "RD_JOB_ID") # <<>>
PriorityOrder == <<"github", "gitlab", "jenkins", "circleci", "bitbucket",
                   "azure-devops", "travis", "rundeck">>
FirstMatch ==
    IF \E i \in 1..8 : MarkerPresent(PriorityOrder[i])
    THEN PriorityOrder[CHOOSE i \in 1..8 :
                          /\ MarkerPresent(PriorityOrder[i])
                          /\ \A j \in 1..(i - 1) : ~MarkerPresent(PriorityOrder[j])]
    ELSE "unknown"
NumMatches == Cardinality({ i \in 1..8 : MarkerPresent(PriorityOrder[i]) })

\* The letter that marks the values of each system's variables.
Letter ==
    [github |-> "G", gitlab |-> "L", jenkins |-> "J", circleci |-> "C",
     bitbucket |-> "B", travis |-> "T", rundeck |-> "K"] @@ ("azure-devops" :> "Z")
Letters == { Letter[x] : x \in DOMAIN Letter }
Returned == detected.called /\ ~detected.panicked
ValueFields == {"Product", "Version", "SCMRepository", "SCMSha", "SCMBranch",
                "BuildNumber", "BuildURL", "InvokeID", "BuiltBy", "BuiltByEmail",
                "BuiltByName"}
\* Every value in the result was read from variables of system sys.
OnlyFrom(sys) ==
    \A f \in ValueFields :
        \A i \in 1..Len(detected.v[f]) :
            detected.v[f][i] \in Letters => detected.v[f][i] = Letter[sys]

\* C17: Detect chooses exactly one System among the eight systems and
\* 'unknown'; with markers of several systems present the first in the order
\* github, gitlab, jenkins, circleci, bitbucket, azure-devops, travis,
\* rundeck wins and only that system's variables are read; with no marker the
\* System is 'unknown' and every other field is empty.
C17_FirstMatchWins ==
    detected.called =>
        /\ detected.System \in { PriorityOrder[i] : i \in 1..8 } \cup {"unknown"}
        /\ detected.System = FirstMatch
        /\ Returned => detected.v.System = detected.System
        /\ (Returned /\ detected.System # "unknown") => OnlyFrom(detected.System)
        /\ detected.System = "unknown" =>
              /\ Returned
              /\ \A f \in ValueFields : detected.v[f] = <<>>
C17_Witness ==
    /\ Returned
    /\ NumMatches = 2
    /\ MarkerPresent("travis")
    /\ Getenv(env, "GITHUB_ACTIONS") = <<"f", "a", "l", "s", "e">>
    /\ detected.System = "gitlab"
    /\ detected.v.SCMSha # <<>>
    /\ detected.v.BuildURL # <<>>

\* The part of str after its last "/".
RECURSIVE AfterLastSlash(_)
AfterLastSlash(str) ==
    IF \E i \in 1..Len(str) : str[i] = "/"
    THEN AfterLastSlash(Tail(str))
    ELSE str
NumSegments(str) == 1 + Cardinality({ i \in 1..Len(str) : str[i] = "/" })
SCMSystems == {"github", "gitlab", "jenkins", "circleci", "bitbucket",
               "azure-devops", "travis"}

\* C18 as stated: whenever a repository identifier is detected, Product is
\* its last '/'-separated segment, for any number of segments; for Rundeck
\* Product is the job name.
C18_ProductIsLastSegment ==
    Returned =>
        /\ (detected.System \in SCMSystems /\ detected.v.SCMRepository # <<>>) =>
              detected.v.Product = AfterLastSlash(detected.v.SCMRepository)
        /\ detected.System = "rundeck" =>
              detected.v.Product = Getenv(env, "RD_JOB_NAME")

\* C18: the Product fallback differs between systems.  GitLab, Jenkins and
\* Azure DevOps take the last '/'-separated segment of the detected
\* repository, for any number of segments; GitHub and Travis take the second
\* segment only when the repository has exactly two segments and leave
\* Product empty otherwise; CircleCI takes CIRCLE_PROJECT_REPONAME and
\* Bitbucket BITBUCKET_REPO_SLUG, whatever the repository is; Rundeck takes
\* the job name.
C18_ProductPerSystem ==
    Returned =>
        /\ detected.System \in {"gitlab", "jenkins", "azure-devops"} =>
              detected.v.Product = AfterLastSlash(detected.v.SCMRepository)
        /\ detected.System \in {"github", "travis"} =>
              detected.v.Product =
                  IF NumSegments(detected.v.SCMRepository) = 2
                  THEN AfterLastSlash(detected.v.SCMRepository)
                  ELSE <<>>
        /\ detected.System = "circleci" =>
              detected.v.Product = Getenv(env, "CIRCLE_PROJECT_REPONAME")
        /\ detected.System = "bitbucket" =>
              detected.v.Product = Getenv(env, "BITBUCKET_REPO_SLUG")
        /\ detected.System = "rundeck" =>
              detected.v.Product = Getenv(env, "RD_JOB_NAME")
C18_Witness ==
    /\ Returned
    /\ detected.System = "github"
    /\ NumSegments(detected.v.SCMRepository) = 3
    /\ detected.v.Product = <<>>
    /\ detected.v.Version # <<>>

\* The commit SHA variable of each system with SCM integration.
ShaVar ==
    [github |-> "GITHUB_SHA", gitlab |-> "CI_COMMIT_SHA", jenkins |-> "GIT_COMMIT",
     circleci |-> "CIRCLE_SHA1", bitbucket |-> "BITBUCKET_COMMIT",
     travis |-> "TRAVIS_COMMIT"] @@ ("azure-devops" :> "BUILD_SOURCEVERSION")
DetectedSha == Getenv(env, ShaVar[detected.System])
First8(str) == [i \in 1..8 |-> str[i]]

AllPresent(components) == \A i \in 1..Len(components) : components[i] # <<>>

\* C20: a synthesized build URL is all-or-nothing.  For GitHub it is
\* '<server>/<repo>/actions/runs/<runID>' exactly when server URL,
\* repository and run id are all non-empty and empty otherwise; likewise for
\* Bitbucket (repository, build number) and Rundeck (server URL, project,
\* execution id).
C20_BuildURLAllOrNothing ==
    Returned =>
        /\ detected.System = "github" =>
              LET server == Getenv(env, "GITHUB_SERVER_URL")
                  repo == Getenv(env, "GITHUB_REPOSITORY")
                  runID == Getenv(env, "GITHUB_RUN_ID")
              IN  detected.v.BuildURL =
                      IF AllPresent(<<server, repo, runID>>)
                      THEN server \o <<"/">> \o repo \o <<"/", "a", "c", "t", "i", "o", "n", "s", "/", "r", "u", "n", "s", "/">> \o runID
                      ELSE <<>>
        /\ detected.System = "bitbucket" =>
              LET repo == Getenv(env, "BITBUCKET_REPO_FULL_NAME")
                  num == Getenv(env, "BITBUCKET_BUILD_NUMBER")
              IN  detected.v.BuildURL =
                      IF AllPresent(<<repo, num>>)
                      THEN <<"h", "t", "t", "p", "s", ":", "/", "/", "b", "i", "t", "b", "u", "c", "k", "e", "t", ".", "o", "r", "g", "/">> \o repo
                           \o <<"/", "p", "i", "p", "e", "l", "i", "n", "e", "s", "/", "r", "e", "s", "u", "l", "t", "s", "/">> \o num
                      ELSE <<>>
        /\ detected.System = "rundeck" =>
              LET server == Getenv(env, "RD_JOB_SERVERURL")
                  project == Getenv(env, "RD_JOB_PROJECT")
                  execID == Getenv(env, "RD_JOB_EXECID")
              IN  detected.v.BuildURL =
                      IF AllPresent(<<server, project, execID>>)
                      THEN server \o <<"/", "p", "r", "o", "j", "e", "c", "t", "/">> \o project
                           \o <<"/", "e", "x", "e", "c", "u", "t", "i", "o", "n", "/", "s", "h", "o", "w", "/">> \o execID
                      ELSE <<>>
C20_Witness ==
    /\ Returned
    /\ detected.System = "github"
    /\ Getenv(env, "GITHUB_SERVER_URL") # <<>>
    /\ Getenv(env, "GITHUB_REPOSITORY") # <<>>
    /\ Getenv(env, "GITHUB_RUN_ID") = <<>>
    /\ detected.v.BuildURL = <<>>

----------------------------------------------------------------------------
(* Properties of the track commands                                        *)

\* The command has handed an event to the client / has ended after that.
Submitted == event.called
\* The event has just been built and no attempt has started yet.
HandedOver == event.called /\ pc = "loop" /\ attempts = <<>>
ExitedAfterSubmission == pc = "exited" /\ event.called
\* The last attempt got a response that the server answered with an error
\* status outside the policy-rejection codes.
IsOtherErrorResponse(a) ==
    a.t = "resp" /\ a.code >= 400 /\ a.code <= 599 /\ a.code \notin {409, 423, 428}

Resolved(sources, fallback) ==
    IF sources[1] # <<>> THEN sources[1]
    ELSE IF sources[2] # <<>> THEN sources[2]
    ELSE fallback
DetectReturned == detected.called /\ ~detected.panicked
InvalidInput ==
    \/ Resolved(flags.product, detected.v.Product) = <<>>
    \/ Resolved(flags.version, detected.v.Version) = <<>>
    \/ kind = "deployment" /\ Resolved(flags.environment, <<>>) = <<>>
    \/ flags.apiKey = <<>>
    \/ flags.extraMetadata.json.kind # "object" /\ flags.extraMetadata.size > 0
    \/ flags.extraMetadata.size > 102400

\* C13: when a required field (product, version, and environment for
\* deployments) or the API key is empty after resolution, or the
\* --extra-metadata value fails to parse, the command returns the error and
\* no HTTP attempt is ever made.
C13_InvalidInputNeverSent ==
    (DetectReturned /\ InvalidInput) =>
        /\ pc = "exited"
        /\ cmdErr # NoErr
        /\ exitCode = 1
        /\ ~event.called
        /\ sent = 0
        /\ attempts = <<>>
C13_Witness ==
    /\ DetectReturned
    /\ pc = "exited"
    /\ Resolved(flags.product, detected.v.Product) # <<>>
    /\ Resolved(flags.version, detected.v.Version) # <<>>
    /\ Resolved(flags.environment, <<>>) # <<>>
    /\ flags.apiKey # <<>>
    /\ flags.extraMetadata.size > 102400
    /\ cmdErr # NoErr
    /\ sent = 0

\* The canonical value of the --status input, read off the alias table.
CanonicalOfInput ==
    IF ToLower(TrimSpace(flags.status)) \in DOMAIN statusAliases
    THEN statusAliases[ToLower(TrimSpace(flags.status))]
    ELSE flags.status

\* C14 as stated: the status of the event handed to the client is the
\* canonical value Normalize returns for the input ('success' and
\* ' SUCCESS ' are submitted as 'completed').
C14_EventCarriesCanonical ==
    HandedOver => event.Status = CanonicalOfInput

\* C14: the status of the event handed to the client is the --status input
\* exactly as given, without trimming, lower-casing or alias replacement
\* ('success' is submitted as 'success', ' SUCCESS ' as ' SUCCESS ');
\* it equals the canonical value only when the input already is canonical
\* or is not recognized.
C14_EventCarriesInput ==
    HandedOver =>
        /\ event.Status = flags.status
        /\ (event.Status = CanonicalOfInput) <=> (flags.status = CanonicalOfInput)
C14_Witness ==
    /\ HandedOver
    /\ flags.status = <<" ", "S", "U", "C", "C", "E", "S", "S", " ">>
    /\ event.Status = <<" ", "S", "U", "C", "C", "E", "S", "S", " ">>
    /\ CanonicalOfInput = <<"c", "o", "m", "p", "l", "e", "t", "e", "d">>

----------------------------------------------------------------------------
(* Auto-detected extra metadata                                            *)

\* The key table of a system as a set of <<key, variable>> pairs.
KeyTable(sys) ==
    { metadataKeys(sys)[i] : i \in 1..Len(metadataKeys(sys)) }
ViKeys(sys) == { kv[1] : kv \in KeyTable(sys) }

\* C21: the map ExtraMetadata returns is never nil and holds exactly the
\* keys of the detected system's table whose environment variable is
\* non-empty, each with that variable's value; no value is the empty
\* string, no key of another system appears, and for the system "unknown"
\* the map is empty.
C21_ExactlyPresentKeys ==
    autoMetadata.called =>
        LET m == autoMetadata.v
            sys == detected.v.System
        IN  /\ ~m.nil
            /\ DOMAIN m.kv =
                   { kv[1] : kv \in { x \in KeyTable(sys) :
                                         Getenv(env, x[2]) # <<>> } }
            /\ \A kv \in KeyTable(sys) :
                   kv[1] \in DOMAIN m.kv => m.kv[kv[1]] = Getenv(env, kv[2])
            /\ \A k \in DOMAIN m.kv : m.kv[k] # <<>>
            /\ \A other \in SystemSet \ {sys} :
                   ViKeys(other) \cap DOMAIN m.kv = {}
            /\ sys = "unknown" => DOMAIN m.kv = {}

\* GitLab is detected; its pipeline id is set and its job id is not, and a
\* GitHub metadata variable is set as well.
C21_Witness ==
    /\ autoMetadata.called
    /\ detected.v.System = "gitlab"
    /\ "vi_gl_pipeline_id" \in DOMAIN autoMetadata.v.kv
    /\ "vi_gl_job_id" \notin DOMAIN autoMetadata.v.kv
    /\ Getenv(env, "CI_JOB_ID") = <<>>
    /\ Getenv(env, "GITHUB_WORKFLOW") # <<>>

----------------------------------------------------------------------------
(* The metadata reconciler                                                 *)

SizeLimit == 102400
SizeRejected ==
    /\ userMetadata.err # NoErr
    /\ userMetadata.err.type = "extra_metadata exceeds maximum size"
    /\ userMetadata.metadata.nil
IsObjectText == extraMetadataStr.json.kind = "object"

\* C22: every text longer than 102400 bytes is rejected with the size
\* error, whether or not it is well-formed JSON, and no text of at most
\* 102400 bytes is rejected for its size.
C22_SizeCheckedFirst ==
    userMetadata.called =>
        /\ extraMetadataStr.size > SizeLimit => SizeRejected
        /\ extraMetadataStr.size <= SizeLimit => ~SizeRejected
        /\ (extraMetadataStr.size \in 1..SizeLimit /\ IsObjectText) =>
              userMetadata.err = NoErr

\* A malformed text of 102401 bytes is rejected for its size.
C22_Witness ==
    /\ userMetadata.called
    /\ extraMetadataStr.size = SizeLimit + 1
    /\ extraMetadataStr.json.kind = "malformed"
    /\ SizeRejected

\* C23: the empty string gives the nil map and no error; "{}" gives a
\* non-nil map without entries and no error; a text that does not spell a
\* JSON object (malformed, array, scalar, null) gives an error and the nil
\* map.
C23_NoDocumentVsEmptyObject ==
    userMetadata.called =>
        /\ extraMetadataStr.size = 0 =>
              userMetadata.err = NoErr /\ userMetadata.metadata.nil
        /\ (IsObjectText /\ extraMetadataStr.size \in 1..SizeLimit) =>
              /\ userMetadata.err = NoErr
              /\ ~userMetadata.metadata.nil
              /\ userMetadata.metadata.kv = extraMetadataStr.json.kv
        /\ (~IsObjectText /\ extraMetadataStr.size > 0) =>
              userMetadata.err # NoErr /\ userMetadata.metadata.nil

\* The text "null" is rejected.
C23_Witness ==
    /\ userMetadata.called
    /\ extraMetadataStr.json.kind = "null"
    /\ extraMetadataStr.size = 40
    /\ userMetadata.err # NoErr
    /\ userMetadata.metadata.nil

\* The entries a merge must have: every key of either side, with the user's
\* value where the user has the key.
UserMap == userMetadata.metadata
UnionUserWins ==
    [k \in DOMAIN autoArg.kv \cup DOMAIN UserMap.kv |->
        IF k \in DOMAIN UserMap.kv THEN UserMap.kv[k] ELSE autoArg.kv[k]]
BothPresent == ~autoArg.nil /\ ~UserMap.nil
NoEntries(m) == DOMAIN m.kv = {}

\* C24 as stated: whenever neither argument is nil, the result is a new map
\* holding the union of the entries with the user's values on collisions.
C24_NewMapWhenBothPresent ==
    (merged.called /\ BothPresent) =>
        /\ merged.is = "merged"
        /\ ~merged.m.nil
        /\ merged.m.kv = UnionUserWins

\* C24: whenever neither argument is nil, the result holds the union of the
\* entries with the user's values on collisions; it is a new map when both
\* arguments have entries, and otherwise it is the argument that has
\* entries (the user's argument when neither has).
C24_UnionUserWins ==
    (merged.called /\ BothPresent) =>
        /\ ~merged.m.nil
        /\ merged.m.kv = UnionUserWins
        /\ (~NoEntries(autoArg) /\ ~NoEntries(UserMap)) => merged.is = "merged"
        /\ NoEntries(autoArg) => merged.is = "userProvided"
        /\ (~NoEntries(autoArg) /\ NoEntries(UserMap)) =>
              merged.is = "autoDetected"

\* merge({a:1}, {a:2, b:3}) = {a:2, b:3}
C24_Witness ==
    /\ merged.called
    /\ autoArg = [nil |-> FALSE, kv |-> ("a" :> <<"1">>)]
    /\ UserMap = [nil |-> FALSE, kv |-> ("a" :> <<"2">>) @@ ("b" :> <<"3">>)]
    /\ merged.is = "merged"
    /\ merged.m = [nil |-> FALSE, kv |-> ("a" :> <<"2">>) @@ ("b" :> <<"3">>)]

\* C25 as stated: when an argument is nil, the result is the other
\* argument, whatever that one is.
C25_NilSideReturnsOther ==
    merged.called =>
        /\ autoArg.nil => merged.m = UserMap /\ merged.is = "userProvided"
        /\ UserMap.nil => merged.m = autoArg

\* C25: when the auto-detected argument has no entries (nil or empty), the
\* result is the user's argument itself; when it has entries and the user's
\* argument has none, the result is the auto-detected argument itself.  So
\* merge(nil, u) = u and merge(nil, nil) = nil, merge(d, nil) = d for a d
\* with entries, and merge of an empty non-nil d with nil is nil.
C25_EmptySideReturnsOther ==
    merged.called =>
        /\ NoEntries(autoArg) =>
              merged.m = UserMap /\ merged.is = "userProvided"
        /\ (~NoEntries(autoArg) /\ NoEntries(UserMap)) =>
              merged.m = autoArg /\ merged.is = "autoDetected"

\* An empty, non-nil auto-detected map merged with no user document.
C25_Witness ==
    /\ merged.called
    /\ ~autoArg.nil /\ NoEntries(autoArg)
    /\ UserMap.nil
    /\ merged.m.nil

----------------------------------------------------------------------------
(* The metadata of the submitted event                                     *)

\* The members of the --extra-metadata document (none for the empty flag).
UserEntries ==
    IF flags.extraMetadata.size > 0 /\ flags.extraMetadata.json.kind = "object"
    THEN flags.extraMetadata.json.kv
    ELSE << >>

\* C26: for both commands the event's extra_metadata holds the vi_ key of
\* every non-empty metadata variable of the detected system and every member
\* of the user's document, the user's value winning where both have a key.
C26_EventCarriesMergedMetadata ==
    event.called =>
        LET sys == detected.v.System
            m == event.ExtraMetadata
        IN  /\ \A kv \in KeyTable(sys) :
                   Getenv(env, kv[2]) # <<>> =>
                       /\ kv[1] \in DOMAIN m.kv
                       /\ m.kv[kv[1]] = IF kv[1] \in DOMAIN UserEntries
                                        THEN UserEntries[kv[1]]
                                        ELSE Getenv(env, kv[2])
            /\ \A k \in DOMAIN UserEntries :
                   k \in DOMAIN m.kv /\ m.kv[k] = UserEntries[k]

\* The same for `track deployment` alone.
C26_DeploymentCarriesMergedMetadata ==
    (event.called /\ kind = "deployment") => C26_EventCarriesMergedMetadata

\* A deployment in GitHub Actions whose user document overrides vi_gh_job.
C26_Witness ==
    /\ event.called /\ kind = "deployment"
    /\ detected.v.System = "github"
    /\ "vi_gh_job" \in DOMAIN UserEntries
    /\ event.ExtraMetadata.kv["vi_gh_job"] = <<"m", "i", "n", "e">>
    /\ event.ExtraMetadata.kv["vi_gh_workflow"] = Getenv(env, "GITHUB_WORKFLOW")
    /\ event.ExtraMetadata.kv["team"] = <<"c", "o", "r", "e">>

----------------------------------------------------------------------------
(* Precedence of the sources of an event field                             *)

\* The text of a system tag.
SystemText ==
    [github |-> <<"g", "i", "t", "h", "u", "b">>,
     gitlab |-> <<"g", "i", "t", "l", "a", "b">>,
     jenkins |-> <<"j", "e", "n", "k", "i", "n", "s">>,
     circleci |-> <<"c", "i", "r", "c", "l", "e", "c", "i">>,
     bitbucket |-> <<"b", "i", "t", "b", "u", "c", "k", "e", "t">>,
     travis |-> <<"t", "r", "a", "v", "i", "s">>,
     rundeck |-> <<"r", "u", "n", "d", "e", "c", "k">>,
     unknown |-> <<"u", "n", "k", "n", "o", "w", "n">>]
    @@ ("azure-devops" :> <<"a", "z", "u", "r", "e", "-", "d", "e", "v", "o", "p", "s">>)

\* The detected counterpart of every optional event field.
Counterpart ==
    [SourceSystem |-> SystemText[detected.v.System],
     BuildNumber |-> detected.v.BuildNumber,
     SCMSha |-> detected.v.SCMSha,
     SCMBranch |-> detected.v.SCMBranch,
     SCMRepository |-> detected.v.SCMRepository,
     BuildURL |-> detected.v.BuildURL,
     DeployURL |-> detected.v.BuildURL,
     InvokeID |-> detected.v.InvokeID,
     BuiltBy |-> detected.v.BuiltBy,
     DeployedBy |-> detected.v.BuiltBy,
     BuiltByEmail |-> detected.v.BuiltByEmail,
     DeployedByEmail |-> detected.v.BuiltByEmail,
     BuiltByName |-> detected.v.BuiltByName,
     DeployedByName |-> detected.v.BuiltByName]

----------------------------------------------------------------------------
(* Detect and short commit SHAs                                            *)

\* C28: every call of Detect returns a DetectedValues, whatever the
\* environment holds.
C28_DetectAlwaysReturns ==
    detected.called => ~detected.panicked

\* Detect panics exactly when the detected system takes its version from the
\* commit SHA and that SHA is non-empty and shorter than 8 characters.
C28_PanicsExactlyOnShortSha ==
    detected.called =>
        (detected.panicked <=>
            /\ detected.System \in {"github", "gitlab", "circleci", "bitbucket", "travis"}
            /\ DetectedSha # <<>>
            /\ Len(DetectedSha) < 8)

\* GitHub Actions with a 4-character GITHUB_SHA.
C28_Witness ==
    /\ detected.called
    /\ detected.System = "github"
    /\ Len(Getenv(env, "GITHUB_SHA")) = 4
    /\ detected.panicked

----------------------------------------------------------------------------
(* Requests that cannot be built                                           *)

\* performRequest failed before anything was sent.
IsLocalFailure(a) == a.t = "build"

\* C29: when the request cannot be built locally, doRequest returns that
\* error after a single attempt, without a backoff sleep and without
\* anything having been sent.
C29_LocalFailureNotRetried ==
    (LoopEnded /\ ~requestOK) =>
        /\ NumAttempts = 1
        /\ IsLocalFailure(attempts[1])
        /\ sleeps = <<>>
        /\ sent = 0

\* A request that cannot be built is attempted four times with the three
\* backoff sleeps in between, nothing is sent, and doRequest returns the
\* exhaustion error wrapping the local failure.
C29_LocalFailureRetried ==
    (LoopEnded /\ ~requestOK) =>
        /\ NumAttempts = 4
        /\ \A i \in 1..4 : IsLocalFailure(attempts[i])
        /\ sleeps = Schedule
        /\ sent = 0
        /\ doErr.type = "request failed after 3 retries"
        /\ IsLocalFailure(doErr.cause)

C29_Witness ==
    /\ Finished
    /\ ~requestOK
    /\ NumAttempts = 4
    /\ sleeps = <<1, 2, 4>>
    /\ sent = 0

----------------------------------------------------------------------------
(* The GitHub Actions error annotation                                     *)

Prefix == <<":", ":", "e", "r", "r", "o", "r", " ", "t", "i", "t", "l", "e", "=">>
HasLineBreak(str) == \E i \in 1..Len(str) : str[i] \in {"\r", "\n"}

\* The percent-encoding of a message: '%', CR and LF become %25, %0D and
\* %0A, every other character stays.
Encoded(c) ==
    CASE c = "%" -> <<"%", "2", "5">>
      [] c = "\r" -> <<"%", "0", "D">>
      [] c = "\n" -> <<"%", "0", "A">>
      [] OTHER -> <<c>>
RECURSIVE EncodedText(_)
EncodedText(str) ==
    IF str = <<>> THEN <<>> ELSE Encoded(Head(str)) \o EncodedText(Tail(str))

\* The printed line without its final line feed, and its parts: the line
\* ends with "::", the encoded message and the line feed.
Body == SubSeq(stdout.line, 1, Len(stdout.line) - 1)
MessagePart ==
    SubSeq(Body, Len(Body) - Len(EncodedText(rejection.message)) + 1, Len(Body))
TitlePart ==
    SubSeq(Body, Len(Prefix) + 1,
           Len(Body) - Len(EncodedText(rejection.message)) - 2)
WellFormed ==
    /\ Len(stdout.line) >= Len(Prefix) + 3 + Len(EncodedText(rejection.message))
    /\ stdout.line[Len(stdout.line)] = "\n"
    /\ SubSeq(Body, 1, Len(Prefix)) = Prefix
    /\ MessagePart = EncodedText(rejection.message)
    /\ SubSeq(Body, Len(Body) - Len(MessagePart) - 1,
              Len(Body) - Len(MessagePart)) = <<":", ":">>

\* C30: the annotation is one line `::error title=<title>::<message>`: the
\* message is percent-encoded, and neither the message part nor the title
\* part holds a raw carriage return or line feed.
C30_SingleWellFormedLine ==
    stdout.called =>
        /\ WellFormed
        /\ ~HasLineBreak(MessagePart)
        /\ ~HasLineBreak(TitlePart)

\* The message part is always percent-encoded and free of line breaks; the
\* title part holds a raw line break exactly when the rule name (status 423
\* and 428) or the error code (status 428) holds one.
C30_OnlyMessageEscaped ==
    stdout.called =>
        /\ WellFormed
        /\ ~HasLineBreak(MessagePart)
        /\ HasLineBreak(TitlePart) <=>
              \/ rejection.statusCode \in {423, 428}
                   /\ HasLineBreak(rejection.ruleName)
              \/ rejection.statusCode = 428
                   /\ HasLineBreak(rejection.errorCode)

\* A schedule block whose rule name holds a line feed, with a message that
\* holds a '%' and a line feed.
C30_Witness ==
    /\ stdout.called
    /\ rejection.statusCode = 423
    /\ rejection.ruleName = <<"r", "\n">>
    /\ rejection.message = <<"%", "\n">>
    /\ MessagePart = <<"%", "2", "5", "%", "0", "A">>
    /\ HasLineBreak(TitlePart)

====
